---- MODULE Spec2Model ----
(***************************************************************************)
(* Leit: the server-side SM-2 scheduler (qualityToSM2, updateSchedule) and *)
(* the POST /api/cards/:id/review handler that applies it to a stored card *)
(* row (src/server/index.js, and the Postgres variant of the same server). *)
(*                                                                         *)
(* Numbers.  ease is held in hundredths (2.5 is 250): every ease the code  *)
(* computes from a two-decimal ease is again a two-decimal number, so the  *)
(* arithmetic is exact.  interval_days is an exact fraction [n, d] in      *)
(* lowest terms.  Time is counted in whole days since an epoch.            *)
(* A nullable column is <<>> (null) or <<v>>.                              *)
(*                                                                         *)
(* Further down: the client's evaluation engine, that is the answer        *)
(* evaluator with its synonym resolver and AI fallback                     *)
(* (src/src/utils/evaluator.ts, src/src/utils/synonyms.ts) and the         *)
(* difficulty inference that follows it in the flashcard view.  A text is  *)
(* a sequence of one-character strings, a score an exact fraction.         *)
(*                                                                         *)
(* Last: the client's session code, that is DatabaseService.getDueCards,   *)
(* the SessionManager and one pass of a FlashcardSession, each awaiting    *)
(* the server between the two halves of a call (syn, due, session,         *)
(* manager).                                                               *)
(***************************************************************************)
EXTENDS Integers, Sequences, FiniteSets, TLC

VARIABLES cards, clock, req, reviews, sPrior, sCall, sPrevCall, sCalls,
          eCall, ePc, eResult, eTrace, aiAvailable, inference,
          syn, due, session, manager

vars == <<cards, clock, req, reviews, sPrior, sCall, sPrevCall, sCalls,
          eCall, ePc, eResult, eTrace, aiAvailable, inference,
          syn, due, session, manager>>

serverVars == <<cards, req, reviews>>

schedVars == <<sPrior, sCall, sPrevCall, sCalls>>

engineVars == <<eCall, ePc, eResult, eTrace, aiAvailable, inference>>

clientVars == <<syn, due, session, manager>>

\* ---------------------------------------------------------------- bounds
MaxClock == 1

MaxCalls == 2

MaxReviews == 2

\* ------------------------------------------------------- nullable values
Null == <<>>

Some(v) == <<v>>

\* JavaScript's x ?? dflt
Coalesce(x, dflt) == IF x = Null THEN dflt ELSE x[1]

\* ------------------------------------------------------ exact fractions
RECURSIVE GCD(_, _)
GCD(a, b) == IF b = 0 THEN a ELSE GCD(b, a % b)

Rat(n, d) == [n |-> n \div GCD(n, d), d |-> d \div GCD(n, d)]

One == [n |-> 1, d |-> 1]

RatLT(a, b) == a.n * b.d < b.n * a.d

\* a * (e / 100), e an ease in hundredths
RatTimesEase(a, e) ==
    LET g == GCD(e, 100)
        en == e \div g
        ed == 100 \div g
        g1 == GCD(a.n, ed)
        g2 == GCD(en, a.d)
    IN  [n |-> (a.n \div g1) * (en \div g2), d |-> (a.d \div g2) * (ed \div g1)]

\* Math.round: the nearest integer, halves upwards
MathRound(a) == (2 * a.n + a.d) \div (2 * a.d)

\* ------------------------------------------------------------ scheduler
Qualities == {"again", "hard", "good", "easy"}

\* what a request body can carry besides the four qualities: an
\* unrecognized string, or nothing at all
UnknownQuality == "later"

NoQuality == ""

DefaultEase == 250

MinEase == 130

\* variant: hard graded below 3
qualityToSM2_HardBelow3(quality) ==
    CASE quality = "easy" -> 5
      [] quality = "good" -> 4
      [] quality = "hard" -> 2
      [] OTHER -> 1

qualityToSM2(quality) ==
    CASE quality = "easy" -> 5
      [] quality = "good" -> 4
      [] quality = "hard" -> 3
      [] OTHER -> 1

\* dayjs().add(interval, "day"), `now` being the clock dayjs() reads when
\* called.  For the day unit dayjs sets the calendar date (so that a day is
\* a calendar day across clock changes) to date + Math.round(amount): a
\* fractional amount of days is rounded to whole days, not added as hours.
DayjsAddDays(now, interval) == now + MathRound(interval)

\* variant: the ease is not clamped
updateSchedule_HardKeepsInterval(card, qualityStr) ==
    LET q == qualityToSM2(qualityStr)
        ease0 == Coalesce(card.ease, DefaultEase)
        interval0 == Coalesce(card.interval_days, One)
        lapses0 == Coalesce(card.lapses, 0)
        lapses == IF q < 3 THEN lapses0 + 1 ELSE lapses0
        floored == IF RatLT(interval0, One) THEN One ELSE interval0
        interval == IF q < 3 THEN One
                    ELSE IF q = 3 THEN floored
                    ELSE RatTimesEase(floored, ease0)
        ease1 == ease0 + (10 - (5 - q) * (8 + (5 - q) * 2))
        ease == IF ease1 < MinEase THEN MinEase ELSE ease1
        due_at == DayjsAddDays(clock, interval)
    IN  [ease |-> ease, interval_days |-> interval, lapses |-> lapses, due_at |-> due_at]

updateSchedule_NoClamp(card, qualityStr) ==
    LET q == qualityToSM2(qualityStr)
        ease0 == Coalesce(card.ease, DefaultEase)
        interval0 == Coalesce(card.interval_days, One)
        lapses0 == Coalesce(card.lapses, 0)
        lapses == IF q < 3 THEN lapses0 + 1 ELSE lapses0
        interval == IF q < 3 THEN One
                    ELSE RatTimesEase(IF RatLT(interval0, One) THEN One ELSE interval0, ease0)
        ease == ease0 + (10 - (5 - q) * (8 + (5 - q) * 2))
        due_at == DayjsAddDays(clock, interval)
    IN  [ease |-> ease, interval_days |-> interval, lapses |-> lapses, due_at |-> due_at]

\* variant: the quadratic term of the ease update is dropped
updateSchedule_LinearEase(card, qualityStr) ==
    LET q == qualityToSM2(qualityStr)
        ease0 == Coalesce(card.ease, DefaultEase)
        interval0 == Coalesce(card.interval_days, One)
        lapses0 == Coalesce(card.lapses, 0)
        lapses == IF q < 3 THEN lapses0 + 1 ELSE lapses0
        interval == IF q < 3 THEN One
                    ELSE RatTimesEase(IF RatLT(interval0, One) THEN One ELSE interval0, ease0)
        ease1 == ease0 + (10 - (5 - q) * 8)
        ease == IF ease1 < MinEase THEN MinEase ELSE ease1
        due_at == DayjsAddDays(clock, interval)
    IN  [ease |-> ease, interval_days |-> interval, lapses |-> lapses, due_at |-> due_at]

\* variant: a prior interval below one day is not raised to one
updateSchedule_NoIntervalFloor(card, qualityStr) ==
    LET q == qualityToSM2(qualityStr)
        ease0 == Coalesce(card.ease, DefaultEase)
        interval0 == Coalesce(card.interval_days, One)
        lapses0 == Coalesce(card.lapses, 0)
        lapses == IF q < 3 THEN lapses0 + 1 ELSE lapses0
        interval == IF q < 3 THEN One ELSE RatTimesEase(interval0, ease0)
        ease1 == ease0 + (10 - (5 - q) * (8 + (5 - q) * 2))
        ease == IF ease1 < MinEase THEN MinEase ELSE ease1
        due_at == DayjsAddDays(clock, interval)
    IN  [ease |-> ease, interval_days |-> interval, lapses |-> lapses, due_at |-> due_at]

updateSchedule(card, qualityStr) ==
    LET q == qualityToSM2(qualityStr)
        ease0 == Coalesce(card.ease, DefaultEase)
        interval0 == Coalesce(card.interval_days, One)
        lapses0 == Coalesce(card.lapses, 0)
        lapses == IF q < 3 THEN lapses0 + 1 ELSE lapses0
        interval == IF q < 3 THEN One
                    ELSE RatTimesEase(IF RatLT(interval0, One) THEN One ELSE interval0, ease0)
        ease1 == ease0 + (10 - (5 - q) * (8 + (5 - q) * 2))
        ease == IF ease1 < MinEase THEN MinEase ELSE ease1
        due_at == DayjsAddDays(clock, interval)
    IN  [ease |-> ease, interval_days |-> interval, lapses |-> lapses, due_at |-> due_at]

\* the scheduling columns of a row as the caller stores a result
Stored(u) == [ease |-> Some(u.ease), interval_days |-> Some(u.interval_days),
              lapses |-> Some(u.lapses)]

\* ------------------------------------------- the scheduler called alone
InputEases == {Null, Some(130), Some(142), Some(250)}

InputIntervals == {Null, Some(Rat(1, 2)), Some(One), Some(Rat(10, 1))}

InputLapses == {Null, Some(0), Some(2)}

InputQualities == Qualities \cup {UnknownQuality}

NoCall == [made |-> FALSE]

InitSched ==
    /\ sPrior \in [ease : InputEases, interval_days : InputIntervals, lapses : InputLapses]
    /\ sCall = NoCall
    /\ sPrevCall = NoCall
    /\ sCalls = 0

\* one call of updateSchedule(sPrior, q); the caller then either stores the
\* result as the card's new state or keeps the state it had
Call(q, store) ==
    /\ sCalls < MaxCalls
    /\ LET out == updateSchedule(sPrior, q)
       IN  /\ sCall' = [made |-> TRUE, prior |-> sPrior, quality |-> q,
                        at |-> clock, out |-> out]
           /\ sPrior' = IF store THEN Stored(out) ELSE sPrior
    /\ sPrevCall' = sCall
    /\ sCalls' = sCalls + 1
    /\ UNCHANGED <<clock, serverVars, engineVars, clientVars>>

\* time passes
Tick ==
    /\ clock < MaxClock
    /\ clock' = clock + 1
    /\ UNCHANGED <<serverVars, schedVars, engineVars, clientVars>>

\* ------------------------------------------------- the review endpoint
CardIds == {"c1", "c2", "c3"}

\* the cards the review requests sent by hand name
RequestedIds == {"c1", "c2"}

Users == {"u1", "u2"}

\* the signed-in user the requests come from
Requesters == {"u1"}

\* an id in the URL that names no card
NoCard == "c0"

\* the handler invocations that can be in flight at once
Slots == {1, 2}

\* the deck of c1 and c3 belongs to u1, the deck of c2 to u2
Owner(id) == IF id = "c2" THEN "u2" ELSE "u1"

\* a row as INSERT INTO cards leaves it: the column defaults, due_at null
DefaultRow == [ease |-> Some(DefaultEase), interval_days |-> Some(One),
               lapses |-> Some(0), due_at |-> Null]

\* a row of a table whose scheduling columns are nullable and unset
NullRow == [ease |-> Null, interval_days |-> Null, lapses |-> Null, due_at |-> Null]

Idle == [pc |-> "idle"]

\* the evaluation engine (evaluator, AI fallback, difficulty inference) at rest
\* what AIService.chat can come back with.  kind: the request failed, the
\* reply carried no content, or it carried a content string; json: the
\* content holds no {...}, one that JSON.parse rejects, or an object;
\* result: the object's result member (absent, not a string, or a string)
NoResult == [type |-> "undefined", text |-> <<>>]

ChatOutcome(kind, json, result) == [kind |-> kind, json |-> json, result |-> result]

NoReply == ChatOutcome("none", "none", NoResult)

NoTrace == [mode |-> "none", useAI |-> FALSE, consulted |-> FALSE, compared |-> 0,
            reply |-> NoReply, timedOut |-> FALSE]

NoInference == [made |-> FALSE]

\* the client's synonym lookups, due-card queries, flashcard session and
\* session manager at rest
NoLookup == [word1 |-> <<>>, word2 |-> <<>>, out |-> Null]

NoQuery == [made |-> FALSE, pending |-> FALSE]

NoSession == [on |-> FALSE]

NoManager == [on |-> FALSE]

InitClientOff ==
    /\ syn = NoLookup
    /\ due = NoQuery
    /\ session = NoSession
    /\ manager = NoManager

InitEngineOff ==
    /\ eCall = [response |-> <<>>, expectedAnswers |-> <<>>]
    /\ ePc = "off"
    /\ eResult = Null
    /\ eTrace = NoTrace
    /\ aiAvailable = Null
    /\ inference = NoInference

InitServer ==
    /\ cards \in {table \in [CardIds -> {DefaultRow, NullRow}] :
                    \A c \in CardIds \ RequestedIds : table[c] = DefaultRow}
    /\ req = [r \in Slots |-> Idle]
    /\ reviews = 0

Init ==
    /\ clock = 0
    /\ InitServer
    /\ sPrior = NullRow
    /\ sCall = NoCall
    /\ sPrevCall = NoCall
    /\ sCalls = 0
    /\ InitEngineOff
    /\ InitClientOff

\* a slot is free before its first request and after a response
Free(r) == req[r].pc \in {"idle", "done"}

\* the handler starts (in the lowest free slot): 400 without a quality, else the SELECT is issued
Post(r, user, id, quality) ==
    /\ Free(r)
    /\ \A r2 \in Slots : r2 < r => ~Free(r2)
    /\ reviews < MaxReviews
    /\ reviews' = reviews + 1
    /\ req' = [req EXCEPT ![r] =
                 IF quality = NoQuality
                 THEN [pc |-> "done", user |-> user, id |-> id, quality |-> quality,
                       status |-> 400]
                 ELSE [pc |-> "select", user |-> user, id |-> id, quality |-> quality]]

\* a review request arrives
ReviewRequest(r, user, id, quality) ==
    /\ Post(r, user, id, quality)
    /\ UNCHANGED <<cards, clock, schedVars, engineVars, clientVars>>

\* variant: the SELECT finds the card by its id alone
SelectCard_NoOwnerCheck(r) ==
    /\ req[r].pc = "select"
    /\ LET rq == req[r]
           found == rq.id \in CardIds
       IN  req' = [req EXCEPT ![r] =
                     IF ~found
                     THEN [pc |-> "done", user |-> rq.user, id |-> rq.id,
                           quality |-> rq.quality, status |-> 404]
                     ELSE [pc |-> "update", user |-> rq.user, id |-> rq.id,
                           quality |-> rq.quality,
                           current |-> [ease |-> cards[rq.id].ease,
                                        interval_days |-> cards[rq.id].interval_days,
                                        lapses |-> cards[rq.id].lapses],
                           updated |-> updateSchedule(cards[rq.id], rq.quality)]]
    /\ UNCHANGED <<cards, clock, reviews, schedVars, engineVars, clientVars>>

\* the SELECT with the deck-ownership join answers; no row is a 404, else
\* updateSchedule runs on the row read and the UPDATE is issued
SelectCard(r) ==
    /\ req[r].pc = "select"
    /\ LET rq == req[r]
           found == rq.id \in CardIds /\ Owner(rq.id) = rq.user
       IN  req' = [req EXCEPT ![r] =
                     IF ~found
                     THEN [pc |-> "done", user |-> rq.user, id |-> rq.id,
                           quality |-> rq.quality, status |-> 404]
                     ELSE [pc |-> "update", user |-> rq.user, id |-> rq.id,
                           quality |-> rq.quality,
                           current |-> [ease |-> cards[rq.id].ease,
                                        interval_days |-> cards[rq.id].interval_days,
                                        lapses |-> cards[rq.id].lapses],
                           updated |-> updateSchedule(cards[rq.id], rq.quality)]]
    /\ UNCHANGED <<cards, clock, reviews, schedVars, engineVars, clientVars>>

\* variant: the UPDATE leaves due_at out of its SET list
UpdateCard_NoDueAt(r, ok) ==
    /\ req[r].pc = "update"
    /\ LET rq == req[r]
           u == rq.updated
       IN  /\ cards' = IF ok
                       THEN [cards EXCEPT ![rq.id] =
                               [ease |-> Some(u.ease),
                                interval_days |-> Some(u.interval_days),
                                lapses |-> Some(u.lapses),
                                due_at |-> cards[rq.id].due_at]]
                       ELSE cards
           /\ req' = [req EXCEPT ![r] =
                        [pc |-> "done", user |-> rq.user, id |-> rq.id,
                         quality |-> rq.quality, status |-> IF ok THEN 200 ELSE 500,
                         data |-> IF ok THEN cards[rq.id].due_at ELSE Null]]
    /\ UNCHANGED <<clock, reviews, schedVars, engineVars, clientVars>>

\* the UPDATE answers: the row of that id takes the computed state and the
\* handler responds 200 with the row (data: its due_at), or the storage
\* reports an error and it responds 500
UpdateCard(r, ok) ==
    /\ req[r].pc = "update"
    /\ LET rq == req[r]
           u == rq.updated
       IN  /\ cards' = IF ok
                       THEN [cards EXCEPT ![rq.id] =
                               [ease |-> Some(u.ease),
                                interval_days |-> Some(u.interval_days),
                                lapses |-> Some(u.lapses),
                                due_at |-> Some(u.due_at)]]
                       ELSE cards
           /\ req' = [req EXCEPT ![r] =
                        [pc |-> "done", user |-> rq.user, id |-> rq.id,
                         quality |-> rq.quality, status |-> IF ok THEN 200 ELSE 500,
                         data |-> IF ok THEN Some(u.due_at) ELSE Null]]
    /\ UNCHANGED <<clock, reviews, schedVars, engineVars, clientVars>>

RequestQualities == Qualities \cup {UnknownQuality, NoQuality}

Next ==
    \/ \E r \in Slots, user \in Requesters, id \in RequestedIds \cup {NoCard},
          quality \in RequestQualities : ReviewRequest(r, user, id, quality)
    \/ \E r \in Slots : SelectCard(r)
    \/ \E r \in Slots, ok \in BOOLEAN : UpdateCard(r, ok)
    \/ Tick

Spec == Init /\ [][Next]_vars

\* the scheduler alone, on inputs from the bounded sets
InitS ==
    /\ clock = 0
    /\ InitSched
    /\ cards = [c \in CardIds |-> DefaultRow]
    /\ req = [r \in Slots |-> Idle]
    /\ reviews = 0
    /\ InitEngineOff
    /\ InitClientOff

NextS ==
    \/ \E q \in InputQualities, store \in BOOLEAN : Call(q, store)
    \/ Tick

SpecSched == InitS /\ [][NextS]_vars

\* ------------------------------------------------------------- claims
\* the prior state of the recorded call, with the defaults for null fields
PriorEase == Coalesce(sCall.prior.ease, 250)

PriorInterval == Coalesce(sCall.prior.interval_days, One)

PriorLapses == Coalesce(sCall.prior.lapses, 0)

\* max(prior interval_days, 1) * prior ease
GrownInterval == RatTimesEase(IF RatLT(PriorInterval, One) THEN One ELSE PriorInterval, PriorEase)

\* C1: from any prior state with ease >= 1.3 (or no ease, i.e. 2.5), after
\* any sequence of updateSchedule calls the returned ease is never below 1.3
\* (130 hundredths), and so is the ease of the state a caller stores.
C1_EaseFloor ==
    /\ sCall.made => sCall.out.ease >= 130
    /\ Coalesce(sPrior.ease, 250) >= 130

\* C1 witness: an again on ease 1.42 would give 0.88 and comes back as 1.3
C1_Witness ==
    /\ sCall.made
    /\ sCall.quality = "again"
    /\ sCall.prior.ease = Some(142)
    /\ sCall.out.ease = 130

\* C2 as stated: a review with quality again or hard returns
\* interval_days = 1 and lapses = prior lapses + 1.
C2_AgainAndHardLapse ==
    (sCall.made /\ sCall.quality \in {"again", "hard"})
        => /\ sCall.out.interval_days = One
           /\ sCall.out.lapses = PriorLapses + 1

\* C2 amended: again (the only one of the four qualities graded below 3)
\* returns interval_days = 1 and lapses = prior lapses + 1; hard is graded 3
\* and is no lapse: lapses unchanged, interval_days = max(prior, 1) * ease.
C2_OnlyAgainLapses ==
    /\ (sCall.made /\ sCall.quality = "again")
         => /\ sCall.out.interval_days = One
            /\ sCall.out.lapses = PriorLapses + 1
    /\ (sCall.made /\ sCall.quality = "hard")
         => /\ sCall.out.interval_days = GrownInterval
            /\ sCall.out.lapses = PriorLapses

\* C2 witness: a hard on a card with interval 10 and two lapses
C2_Witness ==
    /\ sCall.made
    /\ sCall.quality = "hard"
    /\ sCall.prior.interval_days = Some(Rat(10, 1))
    /\ sCall.prior.lapses = Some(2)
    /\ sCall.out.lapses = 2
    /\ RatLT(One, sCall.out.interval_days)

\* the change of the ease before clamping, in hundredths
EaseDelta(quality) ==
    CASE quality = "easy" -> 10
      [] quality = "good" -> 0
      [] quality = "hard" -> 0 - 14
      [] quality = "again" -> 0 - 54

\* C4: for each of the four qualities the returned ease is
\* max(1.3, ease + delta) with delta +0.10 easy, 0 good, -0.14 hard,
\* -0.54 again; ease 2.5 gives 1.96 on again and stays 2.5 on good.
C4_EaseUpdate ==
    (sCall.made /\ sCall.quality \in Qualities)
        => /\ sCall.out.ease =
                 IF PriorEase + EaseDelta(sCall.quality) < 130 THEN 130
                 ELSE PriorEase + EaseDelta(sCall.quality)
           /\ (PriorEase = 250 /\ sCall.quality = "again") => sCall.out.ease = 196
           /\ (PriorEase = 250 /\ sCall.quality = "good") => sCall.out.ease = 250

\* C4 witness: scenario B, an again on ease 2.5 returns 1.96
C4_Witness ==
    /\ sCall.made
    /\ sCall.quality = "again"
    /\ sCall.prior.ease = Some(250)
    /\ sCall.out.ease = 196

\* C5 as stated: a review graded >= 3 returns interval_days =
\* max(prior interval_days, 1) * prior ease, leaves lapses unchanged and
\* sets due_at to now + interval_days days.
C5_PassedReview ==
    (sCall.made /\ sCall.quality \in {"hard", "good", "easy"})
        => /\ sCall.out.interval_days = GrownInterval
           /\ sCall.out.lapses = PriorLapses
           /\ sCall.out.due_at * sCall.out.interval_days.d
                = sCall.at * sCall.out.interval_days.d + sCall.out.interval_days.n

\* C6 as stated: two calls with the same prior state and the same quality
\* return the same ease, interval_days, lapses and due_at (the scheduler
\* takes no now: whatever a caller holds fixed, the result must not move).
C6_Deterministic ==
    (/\ sCall.made
     /\ sPrevCall.made
     /\ sCall.prior = sPrevCall.prior
     /\ sCall.quality = sPrevCall.quality)
        => sCall.out = sPrevCall.out

\* C9: after any review, whatever the prior interval_days (also below 1)
\* and the quality, the interval_days returned (and stored) is at least 1.
C9_IntervalAtLeastOne ==
    sCall.made => ~RatLT(sCall.out.interval_days, One)

\* C9 witness: a good on a card whose prior interval is half a day
C9_Witness ==
    /\ sCall.made
    /\ sCall.quality = "good"
    /\ sCall.prior.interval_days = Some(Rat(1, 2))
    /\ sCall.prior.ease = Some(130)
    /\ sCall.out.interval_days = Rat(13, 10)

\* the due_at updateSchedule returns now for the current prior state
DueFor(quality) == updateSchedule(sPrior, quality).due_at

\* C10 as stated: for a fixed prior state and now, due_at is non-decreasing
\* along again, hard, good, easy, and again is strictly sooner than good
\* and than easy.
C10_DueOrder ==
    /\ DueFor("again") <= DueFor("hard")
    /\ DueFor("hard") <= DueFor("good")
    /\ DueFor("good") <= DueFor("easy")
    /\ DueFor("again") < DueFor("good")
    /\ DueFor("again") < DueFor("easy")

\* C3 as stated: a review whose quality is none of again, hard, good, easy
\* is rejected and produces no new card state: its handler never gets to
\* the UPDATE and never answers 200.
C3_UnknownQualityRejected ==
    \A r \in Slots :
        (req[r].pc # "idle" /\ req[r].quality \notin Qualities)
            => /\ req[r].pc # "update"
               /\ req[r].pc = "done" => req[r].status # 200

\* C7 as stated: no write stores a lapses value smaller than the one stored
\* before it, also when the reads and writes of concurrent reviews interleave.
C7_LapsesNeverDecrease ==
    [][\A c \in CardIds :
          Coalesce(cards'[c].lapses, 0) >= Coalesce(cards[c].lapses, 0)]_vars

\* the results a first review of a never-reviewed card can store: ease 2.5
\* moved by the grade, interval_days 1 or 1 * 2.5, lapses 0 or 1
FirstReviewOutcome(row) ==
    /\ row.ease \in {Some(260), Some(250), Some(236), Some(196)}
    /\ row.interval_days \in {Some(One), Some(Rat(5, 2))}
    /\ row.lapses \in {Some(0), Some(1)}
    /\ (row.lapses = Some(1)) = (row.interval_days = Some(One))
    /\ (row.lapses = Some(1)) = (row.ease = Some(196))

\* C8: every card starts New (due_at null); the write of its first review
\* makes it Scheduled (due_at set) with a state computed from ease 2.5,
\* interval_days 1, lapses 0; every later write leaves due_at set, so a
\* Scheduled card never becomes New again, and no write removes the row, so
\* the card stays reviewable.
C8_Lifecycle ==
    /\ \A c \in CardIds : cards[c].due_at = Null
    /\ [][\A c \in CardIds :
            /\ DOMAIN cards' = CardIds
            /\ cards[c].due_at # Null => cards'[c].due_at # Null
            /\ cards'[c] # cards[c] => cards'[c].due_at # Null
            /\ (cards[c].due_at = Null /\ cards'[c] # cards[c])
                 => FirstReviewOutcome(cards'[c])]_vars

\* C8 witness: c1 has been reviewed twice (again, again), the second review
\* reading the Scheduled state the first one stored
C8_Witness ==
    /\ cards["c1"].due_at # Null
    /\ cards["c1"].lapses = Some(2)
    /\ cards["c1"].ease = Some(142)


\* ===================================================================
\* The evaluator (src/src/utils/evaluator.ts) and the synonym resolver
\* (src/src/utils/synonyms.ts).  A text is a sequence of one-character
\* strings; a score is an exact fraction [n, d].
\* ===================================================================

\* the characters a text of the model can hold, in char-code order
UpperCase == <<"A", "B", "C", "D", "E", "F", "G", "H", "I", "J", "K", "L", "M",
               "N", "O", "P", "Q", "R", "S", "T", "U", "V", "W", "X", "Y", "Z">>

LowerCase == <<"a", "b", "c", "d", "e", "f", "g", "h", "i", "j", "k", "l", "m",
               "n", "o", "p", "q", "r", "s", "t", "u", "v", "w", "x", "y", "z">>

Digits == <<"0", "1", "2", "3", "4", "5", "6", "7", "8", "9">>

CharOrder == <<" ", "!", "%", "'", "-", ".", "/">> \o Digits \o <<"=", "?">>
               \o UpperCase \o LowerCase

CharCode(c) == CHOOSE i \in 1..Len(CharOrder) : CharOrder[i] = c

Range(s) == {s[i] : i \in 1..Len(s)}

UpperChars == Range(UpperCase)

LowerChars == Range(LowerCase)

\* the class \w of the regular expressions, without the underscore (no
\* text of the model holds one)
WordChars == Range(Digits) \cup UpperChars \cup LowerChars

\* String.prototype.toLowerCase, one character
LowerChar(c) ==
    IF c \in UpperChars
    THEN LowerCase[CHOOSE i \in 1..Len(UpperCase) : UpperCase[i] = c]
    ELSE c

\* the classes \s and \w of the regular expressions
IsSpace(c) == c = " "

IsWordChar(c) == c \in WordChars

toLowerCase(t) == [i \in 1..Len(t) |-> LowerChar(t[i])]

RECURSIVE TrimStart(_)
TrimStart(t) == IF t # <<>> /\ IsSpace(Head(t)) THEN TrimStart(Tail(t)) ELSE t

RECURSIVE TrimEnd(_)
TrimEnd(t) ==
    IF t # <<>> /\ IsSpace(t[Len(t)]) THEN TrimEnd(SubSeq(t, 1, Len(t) - 1)) ELSE t

\* String.prototype.trim
trim(t) == TrimEnd(TrimStart(t))

\* .replace(/[^\w\s]/g, '')
RemovePunctuation(t) == SelectSeq(t, LAMBDA c : IsWordChar(c) \/ IsSpace(c))

\* .replace(/[^\w\s.]/g, '')
RemovePunctuationKeepPeriods(t) ==
    SelectSeq(t, LAMBDA c : IsWordChar(c) \/ IsSpace(c) \/ c = ".")

\* .replace(/\s+/g, ' ')
RECURSIVE CollapseWhitespace(_)
CollapseWhitespace(t) ==
    IF t = <<>> THEN <<>>
    ELSE IF IsSpace(Head(t))
         THEN <<" ">> \o CollapseWhitespace(TrimStart(t))
         ELSE <<Head(t)>> \o CollapseWhitespace(Tail(t))

normalizeText(text) ==
    CollapseWhitespace(RemovePunctuation(trim(toLowerCase(text))))

normalizeForSynonym(text) ==
    CollapseWhitespace(RemovePunctuationKeepPeriods(trim(toLowerCase(text))))

\* String.prototype.split(' '): the pieces between single spaces, empty
\* pieces included ("" splits into one empty piece)
RECURSIVE SplitFrom(_, _)
SplitFrom(t, piece) ==
    IF t = <<>> THEN <<piece>>
    ELSE IF Head(t) = " " THEN <<piece>> \o SplitFrom(Tail(t), <<>>)
         ELSE SplitFrom(Tail(t), Append(piece, Head(t)))

split(t) == SplitFrom(t, <<>>)

\* .filter(w => w.length > 0)
NonEmptyWords(t) == SelectSeq(split(t), LAMBDA w : Len(w) > 0)

\* String.prototype.includes
includes(t, part) ==
    \E i \in 0..(Len(t) - Len(part)) : SubSeq(t, i + 1, i + Len(part)) = part

\* the order Array.prototype.sort() puts two strings in: by char codes,
\* a proper prefix first
RECURSIVE StringLess(_, _)
StringLess(a, b) ==
    IF b = <<>> THEN FALSE
    ELSE IF a = <<>> THEN TRUE
    ELSE IF Head(a) = Head(b) THEN StringLess(Tail(a), Tail(b))
    ELSE CharCode(Head(a)) < CharCode(Head(b))

RECURSIVE InsertSorted(_, _)
InsertSorted(w, ws) ==
    IF ws = <<>> THEN <<w>>
    ELSE IF StringLess(w, Head(ws)) THEN <<w>> \o ws
    ELSE <<Head(ws)>> \o InsertSorted(w, Tail(ws))

\* Array.prototype.sort() on strings
RECURSIVE sort(_)
sort(ws) == IF ws = <<>> THEN <<>> ELSE InsertSorted(Head(ws), sort(Tail(ws)))

Min2(a, b) == IF a < b THEN a ELSE b

Max2(a, b) == IF a > b THEN a ELSE b

\* levenshteinDistance fills its matrix row by row.  LevRow fills row j from
\* row j - 1 (prev), cell by cell: acc holds matrix[j][0 .. i - 1]
RECURSIVE LevRow(_, _, _, _, _)
LevRow(str1, ch2, prev, i, acc) ==
    IF i > Len(str1) THEN acc
    ELSE LET indicator == IF str1[i] = ch2 THEN 0 ELSE 1
             cell == Min2(Min2(acc[i] + 1, prev[i + 1] + 1), prev[i] + indicator)
             filled == Append(acc, cell)
         IN  IF Len(filled) = i + 1 THEN LevRow(str1, ch2, prev, i + 1, filled) ELSE acc

RECURSIVE LevRows(_, _, _, _)
LevRows(str1, str2, j, prev) ==
    IF j > Len(str2) THEN prev
    ELSE LET row == LevRow(str1, str2[j], prev, 1, <<j>>)
         IN  IF Len(row) = Len(prev) THEN LevRows(str1, str2, j + 1, row) ELSE prev

levenshteinDistance(str1, str2) ==
    LevRows(str1, str2, 1, [i \in 1..(Len(str1) + 1) |-> i - 1])[Len(str1) + 1]

\* ------------------------------------------------- the synonym resolver
\* SYNONYMS, in the order Object.entries walks it: the rows whose terms
\* the texts of the model use (1, 2, 3, usa, h2o), and the later rows that
\* set one of their terms again (sec, s)
SYNONYMS == <<
    [canonical |-> <<"1">>,
     synonyms |-> <<<<"o", "n", "e">>,
                   <<"i">>,
                   <<"s", "i", "n", "g", "l", "e">>,
                   <<"f", "i", "r", "s", "t">>>>],
    [canonical |-> <<"2">>,
     synonyms |-> <<<<"t", "w", "o">>,
                   <<"i", "i">>,
                   <<"s", "e", "c", "o", "n", "d">>,
                   <<"p", "a", "i", "r">>,
                   <<"c", "o", "u", "p", "l", "e">>>>],
    [canonical |-> <<"3">>,
     synonyms |-> <<<<"t", "h", "r", "e", "e">>,
                   <<"i", "i", "i">>,
                   <<"t", "h", "i", "r", "d">>>>],
    [canonical |-> <<"u", "s", "a">>,
     synonyms |-> <<<<"u", "n", "i", "t", "e", "d", " ", "s", "t", "a", "t", "e", "s">>,
                   <<"a", "m", "e", "r", "i", "c", "a">>,
                   <<"u", "s">>,
                   <<"u", ".", "s", ".">>,
                   <<"u", ".", "s", ".", "a", ".">>,
                   <<"u", "n", "i", "t", "e", "d", " ", "s", "t", "a", "t", "e", "s", " ", "o", "f", " ", "a", "m", "e", "r", "i", "c", "a">>,
                   <<"t", "h", "e", " ", "u", "n", "i", "t", "e", "d", " ", "s", "t", "a", "t", "e", "s">>>>],
    [canonical |-> <<"h", "2", "o">>,
     synonyms |-> <<<<"w", "a", "t", "e", "r">>,
                   <<"d", "i", "h", "y", "d", "r", "o", "g", "e", "n", " ", "m", "o", "n", "o", "x", "i", "d", "e">>>>],
    [canonical |-> <<"s", "e", "c">>,
     synonyms |-> <<<<"s", "e", "c", "o", "n", "d">>,
                   <<"s", "e", "c", "o", "n", "d", "s">>,
                   <<"s">>>>],
    [canonical |-> <<"s">>,
     synonyms |-> <<<<"s", "o", "u", "t", "h">>,
                   <<"s", "o", "u", "t", "h", "e", "r", "n">>>>]>>

\* the REVERSE_LOOKUP.set(key, value) calls buildReverseLookup makes for one
\* row: the canonical to itself, then each synonym to the canonical
RowSets(row) ==
    <<[key |-> toLowerCase(row.canonical), value |-> toLowerCase(row.canonical)]>>
      \o [k \in 1..Len(row.synonyms) |->
            [key |-> toLowerCase(row.synonyms[k]), value |-> toLowerCase(row.canonical)]]

RECURSIVE AllSets(_)
AllSets(rows) == IF rows = <<>> THEN <<>> ELSE RowSets(Head(rows)) \o AllSets(Tail(rows))

\* buildReverseLookup: every set call in order; a later call for the same
\* key replaces the earlier value
buildReverseLookup == AllSets(SYNONYMS)

\* Map.prototype.get on the set calls made so far: the value of the last
\* call for the key, found so far if none follows
RECURSIVE LastSet(_, _, _)
LastSet(sets, key, found) ==
    IF sets = <<>> THEN found
    ELSE LastSet(Tail(sets), key, IF Head(sets).key = key THEN Some(Head(sets).value) ELSE found)

\* REVERSE_LOOKUP.get(key) || null
REVERSE_LOOKUP(key) == LastSet(buildReverseLookup, key, Null)

getCanonical(word) == REVERSE_LOOKUP(normalizeForSynonym(word))

\* the two tests of areSynonyms on the normalized words and their canonicals
SameTerm(normalized1, normalized2, canonical1, canonical2) ==
    \/ normalized1 = normalized2
    \/ (canonical1 # Null /\ canonical2 # Null /\ canonical1 = canonical2)

areSynonyms(word1, word2) ==
    SameTerm(normalizeForSynonym(word1), normalizeForSynonym(word2),
             getCanonical(word1), getCanonical(word2))

\* the stop words of arePhraseSynonyms
PhraseStopWords == {<<"t", "h", "e">>, <<"a">>, <<"a", "n">>, <<"o", "f">>, <<"i", "n">>, <<"o", "n">>, <<"a", "t">>, <<"t", "o">>, <<"f", "o", "r">>, <<"a", "n", "d">>, <<"o", "r">>, <<"i", "s">>, <<"a", "r", "e">>, <<"w", "a", "s">>, <<"w", "e", "r", "e">>}

\* positions 1..n of two equally long word lists all equal or synonyms
AllPositionsMatch(ws1, ws2) ==
    \A i \in 1..Len(ws1) : ws1[i] = ws2[i] \/ areSynonyms(ws1[i], ws2[i])

\* the meaningful words of a phrase, sorted
Meaningful(words) == sort(SelectSeq(words, LAMBDA w : w \notin PhraseStopWords))

\* arePhraseSynonyms past the direct test, on the words of the two phrases
\* and their sorted meaningful words
SameWords(words1, words2, meaningful1, meaningful2) ==
    IF Len(words1) = 1 /\ Len(words2) = 1 THEN FALSE
    ELSE /\ Len(meaningful1) = Len(meaningful2)
         /\ Len(meaningful1) > 0
         /\ AllPositionsMatch(meaningful1, meaningful2)

\* the words of a phrase: normalizeForSynonym(phrase).split(' ') without
\* the empty pieces
WordsOf(phrase) == NonEmptyWords(normalizeForSynonym(phrase))

arePhraseSynonyms(phrase1, phrase2) ==
    \/ areSynonyms(phrase1, phrase2)
    \/ SameWords(WordsOf(phrase1), WordsOf(phrase2),
                 Meaningful(WordsOf(phrase1)), Meaningful(WordsOf(phrase2)))

\* the inner loop of getSynonymSimilarity from index j on: the first index
\* of words2, not yet used, whose word equals word1 or is a synonym of it;
\* 0 if none
RECURSIVE FirstUnusedMatch(_, _, _, _)
FirstUnusedMatch(word1, words2, used, j) ==
    IF j > Len(words2) THEN 0
    ELSE IF j \notin used /\ (word1 = words2[j] \/ areSynonyms(word1, words2[j])) THEN j
    ELSE FirstUnusedMatch(word1, words2, used, j + 1)

\* one step of the outer loop: matchedWords and usedIndices after word1
MatchStep(acc, j) ==
    IF j = 0 THEN acc ELSE [matched |-> acc.matched + 1, used |-> acc.used \cup {j}]

\* the outer loop: the number of words of words1 matched, greedily
RECURSIVE MatchedWords(_, _, _)
MatchedWords(words1, words2, acc) ==
    IF words1 = <<>> THEN acc.matched
    ELSE MatchedWords(Tail(words1), words2,
                      MatchStep(acc, FirstUnusedMatch(Head(words1), words2, acc.used, 1)))

\* getSynonymSimilarity past the phrase test, on the words of the two texts
WordSimilarity(words1, words2) ==
    IF Len(words1) = 0 \/ Len(words2) = 0 THEN Rat(0, 1)
    ELSE Rat(MatchedWords(words1, words2, [matched |-> 0, used |-> {}]),
             Max2(Len(words1), Len(words2)))

getSynonymSimilarity(text1, text2) ==
    IF arePhraseSynonyms(text1, text2) THEN Rat(19, 20)
    ELSE WordSimilarity(WordsOf(text1), WordsOf(text2))

\* ------------------------------------------------------- the evaluator
RatGE(a, b) == ~RatLT(a, b)

getAllowedTypos(wordLength) ==
    IF wordLength < 4 THEN 0 ELSE IF wordLength < 6 THEN 1 ELSE 2

\* isShortAnswerMatch on the normalized texts and their words
ShortMatch(normResp, normExp, respWords, expWords) ==
    IF Len(respWords) > 4 \/ Len(expWords) > 4 THEN FALSE
    ELSE IF Len(respWords) = 1 /\ Len(expWords) = 1
         THEN levenshteinDistance(normResp, normExp) <= getAllowedTypos(Len(normExp))
         ELSE FALSE

isShortAnswerMatch(response, expected) ==
    ShortMatch(normalizeText(response), normalizeText(expected),
               split(normalizeText(response)), split(normalizeText(expected)))

\* the stop words of checkWordOrderMatch
WordOrderStopWords == {<<"t", "h", "e">>, <<"a">>, <<"a", "n">>, <<"o", "f">>, <<"i", "n">>, <<"o", "n">>, <<"a", "t">>, <<"t", "o">>, <<"f", "o", "r">>, <<"a", "n", "d">>, <<"o", "r">>}

\* the words of a normalized text that checkWordOrderMatch compares, sorted
OrderWords(norm) == sort(SelectSeq(split(norm), LAMBDA w : Len(w) > 0 /\ w \notin WordOrderStopWords))

\* checkWordOrderMatch on the two sorted word lists
SameOrderedWords(respWords, expWords) ==
    IF Len(respWords) = 0 \/ Len(expWords) = 0 THEN FALSE
    ELSE IF Len(respWords) = Len(expWords) THEN AllPositionsMatch(respWords, expWords)
         ELSE FALSE

checkWordOrderMatch(response, expected) ==
    SameOrderedWords(OrderWords(normalizeText(response)), OrderWords(normalizeText(expected)))

\* 0.6 + (overlap / maxLen) * 0.2, exactly
partialScore_Unscaled(overlap, maxLen) == Rat(3 * maxLen + 5 * overlap, 5 * maxLen)

partialScore(overlap, maxLen) == Rat(3 * maxLen + overlap, 5 * maxLen)

\* Math.max(0, 1 - distance / maxLength), exactly
fuzzyScore(distance, maxLength) ==
    IF distance > maxLength THEN Rat(0, 1) ELSE Rat(maxLength - distance, maxLength)

\* the result of strategy 7 for its fuzzyScore
FuzzyOrNone(score) ==
    [score |-> score, matchType |-> IF RatGE(score, Rat(1, 2)) THEN "fuzzy" ELSE "none"]

\* strategy 7 of calculateSimilarity once distance and maxLength are known
LevenshteinMatch(distance, maxLength) ==
    IF maxLength = 0 THEN [score |-> Rat(0, 1), matchType |-> "none"]
    ELSE FuzzyOrNone(fuzzyScore(distance, maxLength))

\* strategies 6 and 7 of calculateSimilarity once synonymScore is known
WordOrLevenshteinMatch(synonymScore, normalizedResponse, normalizedExpected) ==
    IF RatGE(synonymScore, Rat(7, 10))
    THEN [score |-> synonymScore, matchType |-> "synonym"]
    ELSE LevenshteinMatch(levenshteinDistance(normalizedResponse, normalizedExpected),
                          Max2(Len(normalizedResponse), Len(normalizedExpected)))

\* the strategies of calculateSimilarity in their order, on the two texts
\* and their normalized forms
Strategies(response, expected, normalizedResponse, normalizedExpected) ==
    IF normalizedResponse = normalizedExpected
    THEN [score |-> Rat(1, 1), matchType |-> "exact"]
    ELSE IF arePhraseSynonyms(response, expected)
    THEN [score |-> Rat(19, 20), matchType |-> "synonym"]
    ELSE IF checkWordOrderMatch(response, expected)
    THEN [score |-> Rat(9, 10), matchType |-> "word_order"]
    ELSE IF isShortAnswerMatch(response, expected)
    THEN [score |-> Rat(9, 10), matchType |-> "fuzzy"]
    ELSE IF \/ includes(normalizedResponse, normalizedExpected)
            \/ includes(normalizedExpected, normalizedResponse)
    THEN [score |-> partialScore(Min2(Len(normalizedResponse), Len(normalizedExpected)),
                                 Max2(Len(normalizedResponse), Len(normalizedExpected))),
          matchType |-> "fuzzy"]
    ELSE WordOrLevenshteinMatch(getSynonymSimilarity(response, expected),
                                normalizedResponse, normalizedExpected)

calculateSimilarity_SubstringFirst(response, expected) ==
    LET normalizedResponse == normalizeText(response)
        normalizedExpected == normalizeText(expected)
        synonymScore == getSynonymSimilarity(response, expected)
        distance == levenshteinDistance(normalizedResponse, normalizedExpected)
        maxLength == Max2(Len(normalizedResponse), Len(normalizedExpected))
        score == fuzzyScore(distance, maxLength)
    IN  IF normalizedResponse = normalizedExpected
        THEN [score |-> Rat(1, 1), matchType |-> "exact"]
        ELSE IF \/ includes(normalizedResponse, normalizedExpected)
                \/ includes(normalizedExpected, normalizedResponse)
        THEN [score |-> partialScore(Min2(Len(normalizedResponse), Len(normalizedExpected)),
                                     Max2(Len(normalizedResponse), Len(normalizedExpected))),
              matchType |-> "fuzzy"]
        ELSE IF arePhraseSynonyms(response, expected)
        THEN [score |-> Rat(19, 20), matchType |-> "synonym"]
        ELSE IF checkWordOrderMatch(response, expected)
        THEN [score |-> Rat(9, 10), matchType |-> "word_order"]
        ELSE IF isShortAnswerMatch(response, expected)
        THEN [score |-> Rat(9, 10), matchType |-> "fuzzy"]
        ELSE IF RatGE(synonymScore, Rat(7, 10))
        THEN [score |-> synonymScore, matchType |-> "synonym"]
        ELSE IF maxLength = 0
        THEN [score |-> Rat(0, 1), matchType |-> "none"]
        ELSE [score |-> score,
              matchType |-> IF RatGE(score, Rat(1, 2)) THEN "fuzzy" ELSE "none"]

calculateSimilarity(response, expected) ==
    Strategies(response, expected, normalizeText(response), normalizeText(expected))

formatMatchType(matchType) ==
    CASE matchType = "synonym" -> "synonym match"
      [] matchType = "word_order" -> "word order match"
      [] matchType = "fuzzy" -> "close match"
      [] matchType = "ai" -> "AI verified"
      [] OTHER -> matchType

\* one pass of the loop of evaluateAnswer: a candidate replaces the best so
\* far only with a strictly greater score
Better(best, result, expected) ==
    IF RatLT(best.bestScore, result.score)
    THEN [bestScore |-> result.score, bestMatch |-> expected, bestMatchType |-> result.matchType]
    ELSE best

RECURSIVE BestMatch_LastOnTies(_, _, _, _)
BestMatch_LastOnTies(response, expectedAnswers, k, best) ==
    IF k > Len(expectedAnswers) THEN best
    ELSE LET result == calculateSimilarity(response, expectedAnswers[k])
         IN  BestMatch_LastOnTies(response, expectedAnswers, k + 1,
                       IF RatGE(result.score, best.bestScore)
                       THEN [bestScore |-> result.score,
                             bestMatch |-> expectedAnswers[k],
                             bestMatchType |-> result.matchType]
                       ELSE best)

\* the loop of evaluateAnswer over the expected answers from position k on
RECURSIVE BestMatch(_, _, _, _)
BestMatch(response, expectedAnswers, k, best) ==
    IF k > Len(expectedAnswers) THEN best
    ELSE BestMatch(response, expectedAnswers, k + 1,
                   Better(best, calculateSimilarity(response, expectedAnswers[k]),
                          expectedAnswers[k]))

\* a feedback text: its fixed words, and the text or words spliced into it
NoAnswerFeedback == [words |-> "No answer provided", detail |-> <<>>]

\* the result for the best match found: feedback and isCorrect by score
Classify(best) ==
    [score |-> best.bestScore,
     feedback |->
        IF RatGE(best.bestScore, Rat(9, 10))
        THEN [words |-> "Correct!",
              detail |-> IF best.bestMatchType # "exact"
                         THEN <<formatMatchType(best.bestMatchType)>> ELSE <<>>]
        ELSE IF RatGE(best.bestScore, Rat(3, 5))
        THEN [words |-> "Close! Expected: ", detail |-> best.bestMatch]
        ELSE [words |-> "Incorrect. Expected: ", detail |-> best.bestMatch],
     isCorrect |-> RatGE(best.bestScore, Rat(9, 10)),
     matchType |-> best.bestMatchType,
     aiUsed |-> FALSE]

NoBest == [bestScore |-> Rat(0, 1), bestMatch |-> <<>>, bestMatchType |-> "none"]

evaluateAnswer_NoBlankGuard(response, expectedAnswers) ==
    Classify(BestMatch(response, expectedAnswers, 1, NoBest))

evaluateAnswer(response, expectedAnswers) ==
    IF trim(response) = <<>>
    THEN [score |-> Rat(0, 1), feedback |-> NoAnswerFeedback, isCorrect |-> FALSE,
          matchType |-> "none", aiUsed |-> FALSE]
    ELSE Classify(BestMatch(response, expectedAnswers, 1, NoBest))

\* the number of calculateSimilarity calls evaluateAnswer makes
Comparisons(response, expectedAnswers) ==
    IF trim(response) = <<>> THEN 0 ELSE Len(expectedAnswers)

\* -------------------------------------------------- difficulty inference
\* inferDifficulty (src/utils/difficultyInference.ts): its thresholds, in ms
QuickMs == 5000

NormalMs == 15000

SlowMs == 30000

\* responseTimeMs < threshold * 0.9 when cardInterval > 7, else < threshold
BelowAdjusted(responseTimeMs, threshold, cardInterval) ==
    IF cardInterval # Null /\ cardInterval[1] > 7
    THEN 10 * responseTimeMs < 9 * threshold
    ELSE responseTimeMs < threshold

inferDifficulty_HintIgnored(input) ==
    LET s == input.answerScore
        t == input.responseTimeMs
        quick == BelowAdjusted(t, QuickMs, input.cardInterval)
        normal == BelowAdjusted(t, NormalMs, input.cardInterval)
    IN  IF RatLT(s, Rat(1, 2))
        THEN [quality |-> "again", confidence |-> Rat(9, 10), reasoning |-> {"score"}]
        ELSE IF RatLT(s, Rat(7, 10))
        THEN [quality |-> "hard", confidence |-> Rat(4, 5), reasoning |-> {"partial answer"}]
        ELSE IF RatGE(s, Rat(9, 10)) /\ quick
        THEN [quality |-> "easy", confidence |-> Rat(17, 20), reasoning |-> {"quick"}]
        ELSE IF RatGE(s, Rat(7, 10)) /\ normal
        THEN [quality |-> "good", confidence |-> Rat(4, 5), reasoning |-> {"normal"}]
        ELSE IF RatGE(s, Rat(9, 10)) /\ t > SlowMs
        THEN [quality |-> "good", confidence |-> Rat(13, 20), reasoning |-> {"slow"}]
        ELSE IF RatGE(s, Rat(9, 10))
        THEN [quality |-> "good", confidence |-> Rat(7, 10), reasoning |-> {"correct"}]
        ELSE [quality |-> "good", confidence |-> Rat(3, 5), reasoning |-> {"default"}]

inferDifficulty_EasyBeforeHint(input) ==
    LET s == input.answerScore
        t == input.responseTimeMs
        quick == BelowAdjusted(t, QuickMs, input.cardInterval)
        normal == BelowAdjusted(t, NormalMs, input.cardInterval)
    IN  IF RatLT(s, Rat(1, 2))
        THEN [quality |-> "again", confidence |-> Rat(9, 10), reasoning |-> {"score"}]
        ELSE IF RatGE(s, Rat(9, 10)) /\ quick
        THEN [quality |-> "easy", confidence |-> Rat(17, 20), reasoning |-> {"quick"}]
        ELSE IF RatLT(s, Rat(7, 10)) \/ input.hintUsed
        THEN [quality |-> "hard", confidence |-> Rat(4, 5),
              reasoning |-> (IF RatLT(s, Rat(7, 10)) THEN {"partial answer"} ELSE {})
                            \cup (IF input.hintUsed THEN {"used hint"} ELSE {})]
        ELSE IF RatGE(s, Rat(7, 10)) /\ normal
        THEN [quality |-> "good", confidence |-> Rat(4, 5), reasoning |-> {"normal"}]
        ELSE IF RatGE(s, Rat(9, 10)) /\ t > SlowMs
        THEN [quality |-> "good", confidence |-> Rat(13, 20), reasoning |-> {"slow"}]
        ELSE IF RatGE(s, Rat(9, 10))
        THEN [quality |-> "good", confidence |-> Rat(7, 10), reasoning |-> {"correct"}]
        ELSE [quality |-> "good", confidence |-> Rat(3, 5), reasoning |-> {"default"}]

inferDifficulty(input) ==
    LET s == input.answerScore
        t == input.responseTimeMs
        quick == BelowAdjusted(t, QuickMs, input.cardInterval)
        normal == BelowAdjusted(t, NormalMs, input.cardInterval)
    IN  IF RatLT(s, Rat(1, 2))
        THEN [quality |-> "again", confidence |-> Rat(9, 10), reasoning |-> {"score"}]
        ELSE IF RatLT(s, Rat(7, 10)) \/ input.hintUsed
        THEN [quality |-> "hard", confidence |-> Rat(4, 5),
              reasoning |-> (IF RatLT(s, Rat(7, 10)) THEN {"partial answer"} ELSE {})
                            \cup (IF input.hintUsed THEN {"used hint"} ELSE {})]
        ELSE IF RatGE(s, Rat(9, 10)) /\ quick
        THEN [quality |-> "easy", confidence |-> Rat(17, 20), reasoning |-> {"quick"}]
        ELSE IF RatGE(s, Rat(7, 10)) /\ normal
        THEN [quality |-> "good", confidence |-> Rat(4, 5), reasoning |-> {"normal"}]
        ELSE IF RatGE(s, Rat(9, 10)) /\ t > SlowMs
        THEN [quality |-> "good", confidence |-> Rat(13, 20), reasoning |-> {"slow"}]
        ELSE IF RatGE(s, Rat(9, 10))
        THEN [quality |-> "good", confidence |-> Rat(7, 10), reasoning |-> {"correct"}]
        ELSE [quality |-> "good", confidence |-> Rat(3, 5), reasoning |-> {"default"}]

\* ------------------------------------------------------ the AI fallback
\* String.prototype.toUpperCase
UpperChar(c) ==
    IF c \in LowerChars
    THEN UpperCase[CHOOSE i \in 1..Len(LowerCase) : LowerCase[i] = c]
    ELSE c

toUpperCase(t) == [i \in 1..Len(t) |-> UpperChar(t[i])]

ResultTexts == {<<"Y", "E", "S">>, <<"y", "e", "s">>, <<"P", "A", "R", "T", "I", "A", "L">>, <<"N", "O">>, <<"M", "A", "Y", "B", "E">>}

ChatReplies ==
    {ChatOutcome("request_error", "none", NoResult),
     ChatOutcome("no_content", "none", NoResult),
     ChatOutcome("content", "none", NoResult),
     ChatOutcome("content", "invalid", NoResult),
     ChatOutcome("content", "object", NoResult),
     ChatOutcome("content", "object", [type |-> "number", text |-> <<>>])}
    \cup {ChatOutcome("content", "object", [type |-> "string", text |-> r]) : r \in ResultTexts}

\* the outcomes of GET /api/ai/status
StatusOutcomes == {"available", "not_available", "not_ok", "error"}

\* evaluateWithAI from the return of AIService.chat on: null, or the result
evaluateWithAI(reply) ==
    IF reply.kind # "content" THEN Null
    ELSE IF reply.json # "object" THEN Null
    ELSE IF reply.result.type = "number" THEN Null
    ELSE LET result == IF reply.result.type = "string"
                       THEN Some(toUpperCase(reply.result.text)) ELSE Null
         IN  IF result = Some(<<"Y", "E", "S">>)
             THEN Some([score |-> Rat(19, 20),
                        feedback |-> [words |-> "Correct! (AI: ", detail |-> <<"reason">>],
                        isCorrect |-> TRUE, matchType |-> "ai", aiUsed |-> TRUE])
             ELSE IF result = Some(<<"P", "A", "R", "T", "I", "A", "L">>)
             THEN Some([score |-> Rat(7, 10),
                        feedback |-> [words |-> "Partially correct. ", detail |-> <<"reason">>],
                        isCorrect |-> FALSE, matchType |-> "ai", aiUsed |-> TRUE])
             ELSE Some([score |-> Rat(3, 10),
                        feedback |-> [words |-> "Incorrect. ", detail |-> <<"reason">>],
                        isCorrect |-> FALSE, matchType |-> "ai", aiUsed |-> TRUE])

\* ------------------------------------------- the evaluation engine's runs
\* the answers typed and the answers of the cards
Responses == {<<"T", "w", "o", " ", "t", "h", "r", "e", "e", "!">>,
              <<>>,
              <<" ">>,
              <<"!">>,
              <<"U", "S">>,
              <<"P", "a", "r", "i">>,
              <<"P", "a", "i", "r", "s">>,
              <<"!", " ", "P", "a", "r", "i", "s">>,
              <<"P", "a", "r">>}

ExpectedTexts == {<<"P", "a", "r", "i", "s">>,
                  <<"U", "S", "A">>,
                  <<"2", " ", "3">>,
                  <<"t", "w", "o", " ", "t", "h", "r", "e", "e">>,
                  <<"?">>}

\* a card holds up to MaxAnswers answers
MaxAnswers == 2

ExpectedLists == UNION {[1..k -> ExpectedTexts] : k \in 0..MaxAnswers}

ResponseTimes == {3000, 45000}

InitEngine ==
    /\ eCall \in [response : Responses, expectedAnswers : ExpectedLists]
    /\ ePc = "ready"
    /\ eResult = Null
    /\ eTrace = NoTrace
    /\ aiAvailable = Null
    /\ inference = NoInference

\* evaluateAnswer is called
CallEvaluateAnswer ==
    /\ ePc = "ready"
    /\ eResult' = Some(evaluateAnswer(eCall.response, eCall.expectedAnswers))
    /\ eTrace' = [eTrace EXCEPT !.mode = "sync",
                     !.compared = Comparisons(eCall.response, eCall.expectedAnswers)]
    /\ ePc' = "resolved"
    /\ UNCHANGED <<eCall, aiAvailable, inference, clock, serverVars, schedVars, clientVars>>

\* evaluateAnswerAsync past the built-in matching, the AI consulted or not
Proceed(useAI, builtInResult, consulted) ==
    /\ eResult' = Some(builtInResult)
    /\ eTrace' = [eTrace EXCEPT !.mode = "async", !.useAI = useAI,
                     !.consulted = consulted,
                     !.compared = Comparisons(eCall.response, eCall.expectedAnswers)]
    /\ ePc' = IF ~consulted THEN "resolved"
              ELSE IF aiAvailable = Null THEN "status"
              ELSE IF aiAvailable = Some(TRUE) THEN "chat" ELSE "resolved"

\* the AI is consulted for a built-in score in the uncertain range when
\* useAI is set
AfterBuiltIn(useAI, builtInResult) ==
    Proceed(useAI, builtInResult,
            /\ ~(RatGE(builtInResult.score, Rat(9, 10)) \/ RatLT(builtInResult.score, Rat(2, 5)))
            /\ useAI)

CallEvaluateAnswerAsync_IgnoresUseAI(useAI) ==
    /\ ePc = "ready"
    /\ LET builtInResult == evaluateAnswer(eCall.response, eCall.expectedAnswers)
           clear == RatGE(builtInResult.score, Rat(9, 10)) \/ RatLT(builtInResult.score, Rat(2, 5))
           consulted == ~clear
       IN  /\ eResult' = Some(builtInResult)
           /\ eTrace' = [eTrace EXCEPT !.mode = "async", !.useAI = useAI,
                            !.consulted = consulted,
                            !.compared = Comparisons(eCall.response, eCall.expectedAnswers)]
           /\ ePc' = IF ~consulted THEN "resolved"
                     ELSE IF aiAvailable = Null THEN "status"
                     ELSE IF aiAvailable = Some(TRUE) THEN "chat" ELSE "resolved"
    /\ UNCHANGED <<eCall, aiAvailable, inference, clock, serverVars, schedVars, clientVars>>

\* evaluateAnswerAsync is called: the built-in result at once when it is
\* clear or useAI is unset; else evaluateWithAI starts with isAvailable,
\* which answers from its cache or issues the status request
CallEvaluateAnswerAsync(useAI) ==
    /\ ePc = "ready"
    /\ AfterBuiltIn(useAI, evaluateAnswer(eCall.response, eCall.expectedAnswers))
    /\ UNCHANGED <<eCall, aiAvailable, inference, clock, serverVars, schedVars, clientVars>>

\* the status request settles: isAvailable caches and returns the answer;
\* unavailable, evaluateWithAI returns null and the built-in result stands
StatusReply(outcome) ==
    /\ ePc = "status"
    /\ aiAvailable' = Some(outcome = "available")
    /\ ePc' = IF outcome = "available" THEN "chat" ELSE "resolved"
    /\ UNCHANGED <<eCall, eResult, eTrace, inference, clock, serverVars, schedVars, clientVars>>

ChatReply_KeepsHigherScore(reply) ==
    /\ ePc = "chat"
    /\ LET aiResult == evaluateWithAI(reply)
       IN  eResult' = IF aiResult # Null /\ ~RatLT(aiResult[1].score, eResult[1].score)
                      THEN aiResult ELSE eResult
    /\ eTrace' = [eTrace EXCEPT !.reply = reply]
    /\ ePc' = "resolved"
    /\ UNCHANGED <<eCall, aiAvailable, inference, clock, serverVars, schedVars, clientVars>>

\* the chat request settles: the AI result if evaluateWithAI builds one,
\* else the built-in result
ChatReply(reply) ==
    /\ ePc = "chat"
    /\ LET aiResult == evaluateWithAI(reply)
       IN  eResult' = IF aiResult # Null THEN aiResult ELSE eResult
    /\ eTrace' = [eTrace EXCEPT !.reply = reply]
    /\ ePc' = "resolved"
    /\ UNCHANGED <<eCall, aiAvailable, inference, clock, serverVars, schedVars, clientVars>>

\* apiFetch aborts the chat request after its 15 s: chat returns null
ChatTimeout ==
    /\ ePc = "chat"
    /\ eTrace' = [eTrace EXCEPT !.timedOut = TRUE]
    /\ ePc' = "resolved"
    /\ UNCHANGED <<eCall, eResult, aiAvailable, inference, clock, serverVars, schedVars, clientVars>>

\* handleReveal continues with the result: the inferred difficulty
Reveal(responseTimeMs, hintUsed) ==
    /\ ePc = "resolved"
    /\ LET input == [responseTimeMs |-> responseTimeMs, answerScore |-> eResult[1].score,
                     hintUsed |-> hintUsed, cardInterval |-> Null]
       IN  inference' = [made |-> TRUE, input |-> input, out |-> inferDifficulty(input)]
    /\ ePc' = "revealed"
    /\ UNCHANGED <<eCall, eResult, eTrace, aiAvailable, clock, serverVars, schedVars, clientVars>>

\* the view moves on and the card comes up again: the view's state is
\* reset, AIService keeps its cached availability
NextCard ==
    /\ ePc = "revealed"
    /\ ePc' = "ready"
    /\ eResult' = Null
    /\ eTrace' = NoTrace
    /\ inference' = NoInference
    /\ UNCHANGED <<eCall, aiAvailable, clock, serverVars, schedVars, clientVars>>

NextE ==
    \/ CallEvaluateAnswer
    \/ \E useAI \in BOOLEAN : CallEvaluateAnswerAsync(useAI)
    \/ \E outcome \in StatusOutcomes : StatusReply(outcome)
    \/ \E reply \in ChatReplies : ChatReply(reply)
    \/ ChatTimeout
    \/ \E responseTimeMs \in ResponseTimes, hintUsed \in BOOLEAN : Reveal(responseTimeMs, hintUsed)
    \/ NextCard

InitOthersOff ==
    /\ clock = 0
    /\ cards = [c \in CardIds |-> DefaultRow]
    /\ req = [r \in Slots |-> Idle]
    /\ reviews = 0
    /\ sPrior = NullRow
    /\ sCall = NoCall
    /\ sPrevCall = NoCall
    /\ sCalls = 0

InitE == InitOthersOff /\ InitClientOff /\ InitEngine

SpecEngine == InitE /\ [][NextE]_vars

\* the timer of apiFetch fires when it is armed; nothing makes the server
\* answer a request
SpecEngineFair == InitE /\ [][NextE]_vars /\ WF_vars(ChatTimeout)

\* the pairs on which the typo tolerance is exercised: one word against
\* one word within and beyond the allowance, with punctuation set apart
\* by a space, and a pair of two words
TypoResponses == {<<"L", "o", "n", "d", "o", "n">>,
                  <<"L", "o", "n", "d", "o">>,
                  <<"L", "o", "d", "o">>,
                  <<"L", "d", "o">>,
                  <<"L", "o", "n", "d", "o", " ", "!">>,
                  <<"!", " ", "L", "o", "n", "d", "o">>,
                  <<"P", "a", "r", "i">>,
                  <<"P", "r", "i">>,
                  <<"c", "o", "t">>,
                  <<"N", "e", "w", " ", "Y", "r", "k">>}

TypoExpected == {<<"L", "o", "n", "d", "o", "n">>,
                 <<"P", "a", "r", "i", "s">>,
                 <<"c", "a", "t">>,
                 <<"N", "e", "w", " ", "Y", "o", "r", "k">>}

InitTypo ==
    /\ eCall \in [response : TypoResponses, expectedAnswers : {<<e>> : e \in TypoExpected}]
    /\ ePc = "ready"
    /\ eResult = Null
    /\ eTrace = NoTrace
    /\ aiAvailable = Null
    /\ inference = NoInference

InitT == InitOthersOff /\ InitClientOff /\ InitTypo

NextT ==
    \/ CallEvaluateAnswer
    \/ \E responseTimeMs \in ResponseTimes, hintUsed \in BOOLEAN : Reveal(responseTimeMs, hintUsed)
    \/ NextCard

\* evaluateAnswer alone, on the pairs of the typo tolerance
SpecTypo == InitT /\ [][NextT]_vars

\* ------------------------------------------------ the synonym lookups
\* every term of the table: the canonicals and the synonyms
RECURSIVE TermsOf(_)
TermsOf(rows) ==
    IF rows = <<>> THEN {}
    ELSE {Head(rows).canonical} \cup Range(Head(rows).synonyms) \cup TermsOf(Tail(rows))

TableTerms == TermsOf(SYNONYMS)

InitLookup ==
    /\ syn \in [word1 : TableTerms, word2 : TableTerms, out : {Null}]
    /\ due = NoQuery
    /\ session = NoSession
    /\ manager = NoManager

\* areSynonyms is called
CallAreSynonyms ==
    /\ syn.out = Null
    /\ syn' = [syn EXCEPT !.out = Some(areSynonyms(syn.word1, syn.word2))]
    /\ UNCHANGED <<due, session, manager, clock, serverVars, schedVars, engineVars>>

InitY == InitOthersOff /\ InitEngineOff /\ InitLookup

NextY == CallAreSynonyms

\* areSynonyms alone, on the terms of the table
SpecSynonyms == InitY /\ [][NextY]_vars

\* inferDifficulty alone, on inputs from the bounded sets
InferTimes == {0, 3000, 4499, 4500, 4999, 5000, 10000, 13499, 13500, 14999, 15000,
               30000, 30001, 45000}

InferScores == {Rat(0, 1), Rat(3, 10), Rat(49, 100), Rat(1, 2), Rat(13, 20), Rat(69, 100),
                Rat(7, 10), Rat(89, 100), Rat(9, 10), Rat(19, 20), Rat(1, 1)}

InferIntervals == {Null, Some(1), Some(7), Some(8), Some(30)}

InferInputs ==
    [responseTimeMs : InferTimes, answerScore : InferScores, hintUsed : BOOLEAN,
     cardInterval : InferIntervals]

CallInferDifficulty(input) ==
    /\ inference' = [made |-> TRUE, input |-> input, out |-> inferDifficulty(input)]
    /\ UNCHANGED <<eCall, ePc, eResult, eTrace, aiAvailable, clock, serverVars, schedVars, clientVars>>

InitI == InitOthersOff /\ InitClientOff /\ InitEngineOff

NextI == \E input \in InferInputs : CallInferDifficulty(input)

SpecInfer == InitI /\ [][NextI]_vars

\* ------------------------------------------------- the session manager
\* the sessions the server creates are numbered up to MaxSessions
MaxSessions == 2

NoStart == [made |-> FALSE]

NoAnswer == [pending |-> FALSE]

\* a SessionManager as constructed: sessionId and currentUser null, no
\* call in flight, no event recorded
InitManager ==
    /\ manager = [currentUser |-> Null, sessionId |-> Null, created |-> 0,
                  start |-> "idle", lastStart |-> NoStart, events |-> <<>>,
                  answers |-> [r \in Slots |-> NoAnswer]]
    /\ syn = NoLookup
    /\ due = NoQuery
    /\ session = NoSession

\* initialize: getCurrentUser answers with the user or with null
Initialize(user) ==
    /\ manager' = [manager EXCEPT !.currentUser = user]
    /\ UNCHANGED <<syn, due, session, clock, serverVars, schedVars, engineVars>>

\* startSession is called: null at once without a current user, else
\* createSession is awaited
StartSession ==
    /\ manager.start = "idle"
    /\ manager' = IF manager.currentUser = Null
                  THEN [manager EXCEPT !.lastStart =
                           [made |-> TRUE, ret |-> Null, created |-> FALSE,
                            current |-> manager.sessionId]]
                  ELSE [manager EXCEPT !.start = "creating"]
    /\ UNCHANGED <<syn, due, session, clock, serverVars, schedVars, engineVars>>

\* what startSession returns once createSession has answered
StartReturn(m, ok) ==
    [m EXCEPT !.start = "idle",
              !.lastStart = [made |-> TRUE, ret |-> m.sessionId, created |-> ok,
                             current |-> m.sessionId]]

\* createSession answers with the new session or with null: sessionId is
\* set in the first case only, and this.sessionId is returned in both
StartSessionSettled(ok) ==
    /\ manager.start = "creating"
    /\ ok => manager.created < MaxSessions
    /\ manager' =
         IF ok
         THEN StartReturn([manager EXCEPT !.sessionId = Some(manager.created + 1),
                                          !.created = manager.created + 1], ok)
         ELSE StartReturn(manager, ok)
    /\ UNCHANGED <<syn, due, session, clock, serverVars, schedVars, engineVars>>

\* finishSession with an active session: sessionId is reset
FinishSession ==
    /\ manager.sessionId # Null
    /\ manager' = [manager EXCEPT !.sessionId = Null]
    /\ UNCHANGED <<syn, due, session, clock, serverVars, schedVars, engineVars>>

\* recordAnswer with an active session: the schedule update is requested
RecordAnswer(r, cardId, quality) ==
    /\ manager.sessionId # Null
    /\ ~manager.answers[r].pending
    /\ Post(r, "u1", cardId, quality)
    /\ manager' = [manager EXCEPT !.answers[r] =
                      [pending |-> TRUE, cardId |-> cardId, quality |-> quality]]
    /\ UNCHANGED <<syn, due, session, cards, clock, schedVars, engineVars>>

\* updateCardSchedule: the row of a 200, null for any other response
UpdatedCard(response) == IF response.status = 200 THEN response.data ELSE Null

\* updatedCard?.due_at || new Date().toISOString()
NextDue(updatedCard) == IF updatedCard # Null THEN updatedCard[1] ELSE clock

\* the schedule update has answered and createSessionEvent answers with
\* the event or with null
RecordSettled(r, stored) ==
    /\ manager.answers[r].pending
    /\ req[r].pc = "done"
    /\ manager' = [manager EXCEPT
                      !.answers[r] = NoAnswer,
                      !.events = IF stored
                                 THEN Append(manager.events,
                                             [session_id |-> manager.sessionId,
                                              card_id |-> manager.answers[r].cardId,
                                              quality |-> manager.answers[r].quality,
                                              next_due |-> NextDue(UpdatedCard(req[r])),
                                              updated |-> UpdatedCard(req[r])])
                                 ELSE manager.events]
    /\ UNCHANGED <<syn, due, session, clock, serverVars, schedVars, engineVars>>

\* the qualities chosen in the sessions of the model
AnswerQualities == {"again", "good"}

InitM ==
    /\ clock = 0
    /\ InitServer
    /\ sPrior = NullRow
    /\ sCall = NoCall
    /\ sPrevCall = NoCall
    /\ sCalls = 0
    /\ InitEngineOff
    /\ InitManager

NextM ==
    \/ \E user \in {Null, Some("u1")} : Initialize(user)
    \/ StartSession
    \/ \E ok \in BOOLEAN : StartSessionSettled(ok)
    \/ FinishSession
    \/ \E r \in Slots, quality \in AnswerQualities : RecordAnswer(r, "c1", quality)
    \/ \E r \in Slots : SelectCard(r)
    \/ \E r \in Slots, ok \in BOOLEAN : UpdateCard(r, ok)
    \/ \E r \in Slots, stored \in BOOLEAN : RecordSettled(r, stored)
    \/ Tick

\* the session manager with the review endpoint it calls
SpecManager == InitM /\ [][NextM]_vars

\* ------------------------------------- due cards and the flashcard session
Decks == {"d1", "d2"}

DeckOwner(deckId) == IF deckId = "d2" THEN "u2" ELSE "u1"

DeckOf(id) == IF id = "c2" THEN "d2" ELSE "d1"

\* the cards in the order they were created
CardOrder == <<"c1", "c2", "c3">>

RECURSIVE RowsOf(_, _)
\* the rows of the deck, ORDER BY created_at
RowsOf(deckId, i) ==
    IF i > Len(CardOrder) THEN <<>>
    ELSE IF DeckOf(CardOrder[i]) = deckId
         THEN <<[id |-> CardOrder[i], due_at |-> cards[CardOrder[i]].due_at]>>
              \o RowsOf(deckId, i + 1)
         ELSE RowsOf(deckId, i + 1)

\* GET /api/decks/:deckId/cards: 404 for a deck that is not the user's,
\* 500 when the query fails, else the rows of the deck
GetDeckCards(user, deckId, ok) ==
    IF DeckOwner(deckId) # user THEN [status |-> 404, data |-> <<>>]
    ELSE IF ~ok THEN [status |-> 500, data |-> <<>>]
    ELSE [status |-> 200, data |-> RowsOf(deckId, 1)]

RECURSIVE DueFilter(_, _, _)
\* cards.filter: unscheduled rows and rows with due_at <= now
DueFilter(rows, now, i) ==
    IF i > Len(rows) THEN <<>>
    ELSE IF rows[i].due_at = Null \/ rows[i].due_at[1] <= now
         THEN <<rows[i].id>> \o DueFilter(rows, now, i + 1)
         ELSE DueFilter(rows, now, i + 1)

\* the nowIso arguments of the model: absent (the clock is read) or a day
NowArguments == {Null, Some(0), Some(1), Some(2)}

\* getDueCards is called: now is fixed and the request is sent
GetDueCards(deckId, nowIso) ==
    /\ ~due.pending
    /\ due' = [made |-> FALSE, pending |-> TRUE, deckId |-> deckId,
               now |-> IF nowIso # Null THEN nowIso[1] ELSE clock]
    /\ UNCHANGED <<syn, session, manager, clock, serverVars, schedVars, engineVars>>

\* what getDueCards returns for a response: apiFetch throws on a status
\* that is not ok and the catch returns the empty list
DueCardsOf(response, now) ==
    IF response.status = 200 THEN DueFilter(response.data, now, 1) ELSE <<>>

\* the server answers and getDueCards returns
DueCardsServed(ok) ==
    /\ due.pending
    /\ due' = [made |-> TRUE, pending |-> FALSE, deckId |-> due.deckId, now |-> due.now,
               response |-> GetDeckCards("u1", due.deckId, ok),
               out |-> DueCardsOf(GetDeckCards("u1", due.deckId, ok), due.now)]
    /\ UNCHANGED <<syn, session, manager, clock, serverVars, schedVars, engineVars>>

\* the session view is shown with the due cards, if there are any
MountSession ==
    /\ due.made
    /\ Len(due.out) > 0
    /\ ~session.on
    /\ session' = [on |-> TRUE, cards |-> due.out, currentCardIndex |-> 0,
                   sessionEntries |-> <<>>, isComplete |-> FALSE, isPaused |-> FALSE,
                   isRevealed |-> FALSE, completions |-> 0,
                   calls |-> [r \in Slots |-> NoAnswer], sent |-> <<>>]
    /\ UNCHANGED <<syn, due, manager, clock, serverVars, schedVars, engineVars>>

\* a card is on screen: the session is not complete and the index names a card
CardShown ==
    /\ session.on
    /\ ~session.isComplete
    /\ session.currentCardIndex < Len(session.cards)

\* the Pause / Resume button
TogglePause ==
    /\ CardShown
    /\ session' = [session EXCEPT !.isPaused = ~session.isPaused]
    /\ UNCHANGED <<syn, due, manager, clock, serverVars, schedVars, engineVars>>

\* handleReveal
RevealAnswer ==
    /\ CardShown
    /\ ~session.isPaused
    /\ ~session.isRevealed
    /\ session' = [session EXCEPT !.isRevealed = TRUE]
    /\ UNCHANGED <<syn, due, manager, clock, serverVars, schedVars, engineVars>>

\* a quality button of the revealed card: handleQualitySelect calls
\* handleAnswer, which runs to its await with the values of the render it
\* was created in
SelectQuality(r, quality) ==
    /\ CardShown
    /\ session.isRevealed
    /\ ~session.isPaused
    /\ ~session.calls[r].pending
    /\ Post(r, "u1", session.cards[session.currentCardIndex + 1], quality)
    /\ session' = [session EXCEPT
                     !.calls[r] = [pending |-> TRUE,
                                   cardId |-> session.cards[session.currentCardIndex + 1],
                                   quality |-> quality,
                                   sessionEntries |-> session.sessionEntries,
                                   isLastCard |-> session.currentCardIndex
                                                    = Len(session.cards) - 1],
                     !.sent = Append(session.sent, session.currentCardIndex)]
    /\ UNCHANGED <<syn, due, manager, cards, clock, schedVars, engineVars>>

\* the entry handleAnswer builds once updateCardSchedule has answered
SessionEntry(call, response) ==
    [cardId |-> call.cardId, quality |-> call.quality,
     nextDue |-> NextDue(UpdatedCard(response)), updated |-> UpdatedCard(response)]

\* the view after the state updates: a new card on screen is not revealed
Rendered(s, before) ==
    [s EXCEPT !.isRevealed = IF s.currentCardIndex = before.currentCardIndex
                                \/ s.currentCardIndex >= Len(s.cards)
                             THEN before.isRevealed ELSE FALSE]

\* handleAnswer after its await: the entry is appended to the entries of
\* the render the call was made in, then the session completes or the
\* index is incremented
AnswerSettled(r) ==
    /\ session.on
    /\ session.calls[r].pending
    /\ req[r].pc = "done"
    /\ session' =
         Rendered([session EXCEPT
                     !.calls[r] = NoAnswer,
                     !.sessionEntries = Append(session.calls[r].sessionEntries,
                                               SessionEntry(session.calls[r], req[r])),
                     !.isComplete = IF session.calls[r].isLastCard
                                    THEN TRUE ELSE session.isComplete,
                     !.completions = IF session.calls[r].isLastCard
                                     THEN session.completions + 1
                                     ELSE session.completions,
                     !.currentCardIndex = IF session.calls[r].isLastCard
                                          THEN session.currentCardIndex
                                          ELSE session.currentCardIndex + 1],
                  session)
    /\ UNCHANGED <<syn, due, manager, clock, serverVars, schedVars, engineVars>>

InitSession ==
    /\ clock = 0
    /\ InitServer
    /\ sPrior = NullRow
    /\ sCall = NoCall
    /\ sPrevCall = NoCall
    /\ sCalls = 0
    /\ InitEngineOff
    /\ InitClientOff

NextSession ==
    \/ \E deckId \in Decks, nowIso \in NowArguments : GetDueCards(deckId, nowIso)
    \/ \E ok \in BOOLEAN : DueCardsServed(ok)
    \/ MountSession
    \/ TogglePause
    \/ RevealAnswer
    \/ \E r \in Slots, quality \in AnswerQualities : SelectQuality(r, quality)
    \/ \E r \in Slots : SelectCard(r)
    \/ \E r \in Slots, ok \in BOOLEAN : UpdateCard(r, ok)
    \/ \E r \in Slots : AnswerSettled(r)
    \/ Tick

\* one pass of a flashcard session over the due cards of a deck
SpecSession == InitSession /\ [][NextSession]_vars

\* ------------------------------------------------ claims on the evaluator
\* a synchronous evaluateAnswer call has returned
SyncDone == ePc = "resolved" /\ eTrace.mode = "sync"

\* the response is empty or holds white space only
Blank(text) == \A i \in 1..Len(text) : text[i] = " "

\* C11: when the response is not blank and equals some expected answer
\* after normalization, evaluateAnswer returns score 1.0, matchType exact
\* and isCorrect true, whatever the other expected answers and their order.
C11_ExactMatch ==
    (/\ SyncDone
     /\ ~Blank(eCall.response)
     /\ \E k \in 1..Len(eCall.expectedAnswers) :
           normalizeText(eCall.response) = normalizeText(eCall.expectedAnswers[k]))
    => /\ eResult[1].score = Rat(1, 1)
       /\ eResult[1].matchType = "exact"
       /\ eResult[1].isCorrect

\* C12: for a response and a single expected answer that differ after
\* normalization and are synonyms of the resolver, evaluateAnswer returns
\* score >= 0.9, isCorrect true and matchType synonym.
C12_KnownSynonymPair ==
    (/\ SyncDone
     /\ Len(eCall.expectedAnswers) = 1
     /\ normalizeText(eCall.response) # normalizeText(eCall.expectedAnswers[1])
     /\ areSynonyms(eCall.response, eCall.expectedAnswers[1]))
    => /\ RatGE(eResult[1].score, Rat(9, 10))
       /\ eResult[1].isCorrect
       /\ eResult[1].matchType = "synonym"

\* a known pair (US and USA) has been evaluated
C12_Witness ==
    /\ SyncDone
    /\ Len(eCall.expectedAnswers) = 1
    /\ normalizeText(eCall.response) # normalizeText(eCall.expectedAnswers[1])
    /\ areSynonyms(eCall.response, eCall.expectedAnswers[1])
    /\ eResult[1].matchType = "synonym"

\* C13: for a blank response and any expected answers, evaluateAnswer
\* returns score 0, isCorrect false, matchType none and the feedback
\* "No answer provided", and compares against no expected answer.
C13_BlankResponse ==
    (SyncDone /\ Blank(eCall.response))
    => /\ eResult[1].score = Rat(0, 1)
       /\ ~eResult[1].isCorrect
       /\ eResult[1].matchType = "none"
       /\ eResult[1].feedback = NoAnswerFeedback
       /\ eTrace.compared = 0

\* a blank response has been evaluated for a card that has answers
C13_Witness ==
    /\ SyncDone
    /\ Blank(eCall.response)
    /\ Len(eCall.expectedAnswers) > 0
    /\ eResult[1].feedback = NoAnswerFeedback

\* C14: evaluateAnswer degrades to score 0 and matchType none when the
\* response is empty after normalization, or no expected answer is left
\* that is not empty after normalization (the list may be empty).
C14_DegradesToLowest ==
    (/\ SyncDone
     /\ \/ normalizeText(eCall.response) = <<>>
        \/ \A k \in 1..Len(eCall.expectedAnswers) :
              normalizeText(eCall.expectedAnswers[k]) = <<>>)
    => /\ eResult[1].score = Rat(0, 1)
       /\ eResult[1].matchType = "none"

\* C15: every EvaluationResult has a score in [0, 1] and every
\* InferenceResult a confidence in [0, 1].
C15_ScoreAndConfidenceInRange ==
    /\ eResult # Null =>
          RatGE(eResult[1].score, Rat(0, 1)) /\ RatGE(Rat(1, 1), eResult[1].score)
    /\ inference.made =>
          RatGE(inference.out.confidence, Rat(0, 1))
          /\ RatGE(Rat(1, 1), inference.out.confidence)

\* a partial match (score strictly between 0 and 1) went through inference
C15_Witness ==
    /\ ePc = "revealed"
    /\ inference.made
    /\ eResult[1].matchType = "fuzzy"
    /\ RatLT(Rat(0, 1), eResult[1].score)
    /\ RatLT(eResult[1].score, Rat(1, 1))

\* the strategies in the order the claim gives them: which ones qualify
Qualifies(response, expected) ==
    LET nr == normalizeText(response)
        ne == normalizeText(expected)
    IN  <<nr = ne,
          arePhraseSynonyms(response, expected),
          checkWordOrderMatch(response, expected),
          isShortAnswerMatch(response, expected),
          includes(nr, ne) \/ includes(ne, nr),
          RatGE(getSynonymSimilarity(response, expected), Rat(7, 10)),
          TRUE>>

FirstQualifying(response, expected) ==
    LET q == Qualifies(response, expected)
    IN  CHOOSE i \in 1..7 : q[i] /\ \A j \in 1..(i - 1) : ~q[j]

\* the per-candidate result is the one the claim gives for strategy i
IsResultOfStrategy(i, response, expected, result) ==
    LET nr == normalizeText(response)
        ne == normalizeText(expected)
        maxLength == Max2(Len(nr), Len(ne))
        distance == levenshteinDistance(nr, ne)
    IN  CASE i = 1 -> result = [score |-> Rat(1, 1), matchType |-> "exact"]
          [] i = 2 -> result = [score |-> Rat(19, 20), matchType |-> "synonym"]
          [] i = 3 -> result = [score |-> Rat(9, 10), matchType |-> "word_order"]
          [] i = 4 -> result = [score |-> Rat(9, 10), matchType |-> "fuzzy"]
          [] i = 5 -> /\ RatGE(result.score, Rat(3, 5))
                      /\ RatGE(Rat(4, 5), result.score)
                      /\ result.score.n * 5 * maxLength
                            = result.score.d * (3 * maxLength + Min2(Len(nr), Len(ne)))
                      /\ result.matchType = "fuzzy"
          [] i = 6 -> /\ result.score = getSynonymSimilarity(response, expected)
                      /\ result.matchType = "synonym"
          [] OTHER -> /\ maxLength = 0 => result.score = Rat(0, 1)
                      /\ maxLength > 0 =>
                            result.score.n * maxLength
                               = result.score.d * (maxLength - distance)
                      /\ result.matchType
                            = IF RatGE(result.score, Rat(1, 2)) THEN "fuzzy" ELSE "none"

\* the result of evaluateAnswer is the maximum of the candidates' scores,
\* with the matchType of the earliest candidate that reaches it
IsMaxOverCandidates(response, expectedAnswers, result) ==
    LET per == [k \in 1..Len(expectedAnswers) |->
                   calculateSimilarity(response, expectedAnswers[k])]
        best == {k \in 1..Len(expectedAnswers) :
                    \A k2 \in 1..Len(expectedAnswers) : RatGE(per[k].score, per[k2].score)}
        first == CHOOSE k \in best : \A k2 \in best : k <= k2
    IN  /\ \A k \in 1..Len(expectedAnswers) :
              IsResultOfStrategy(FirstQualifying(response, expectedAnswers[k]),
                                 response, expectedAnswers[k], per[k])
        /\ IF expectedAnswers = <<>> \/ per[first].score = Rat(0, 1)
           THEN result.score = Rat(0, 1) /\ result.matchType = "none"
           ELSE result.score = per[first].score /\ result.matchType = per[first].matchType
        /\ Len(expectedAnswers) > 0 =>
              RatGE(result.score,
                    evaluateAnswer(response,
                                   SubSeq(expectedAnswers, 1, Len(expectedAnswers) - 1)).score)

\* C16 as stated: for every response, each candidate's result is that of the
\* first qualifying strategy in the order exact, full-phrase synonym, word
\* order, short-answer typo, substring, synonym word similarity, Levenshtein
\* fallback; evaluateAnswer returns the maximum over the candidates with the
\* matchType of the earliest candidate reaching it, and a further expected
\* answer never lowers the score.
C16_MaxOverCandidates ==
    SyncDone => IsMaxOverCandidates(eCall.response, eCall.expectedAnswers, eResult[1])

\* C16 amended: the same for every response that is not blank (a blank
\* response scores 0 before any candidate is looked at).
C16_MaxOverCandidatesNotBlank ==
    (SyncDone /\ ~Blank(eCall.response))
    => IsMaxOverCandidates(eCall.response, eCall.expectedAnswers, eResult[1])

\* two candidates tie at the maximum with different match types, and the
\* result carries the match type of the first
C16_Witness ==
    /\ SyncDone
    /\ ~Blank(eCall.response)
    /\ Len(eCall.expectedAnswers) = 2
    /\ LET a == calculateSimilarity(eCall.response, eCall.expectedAnswers[1])
           b == calculateSimilarity(eCall.response, eCall.expectedAnswers[2])
       IN  /\ a.score = b.score
           /\ a.matchType # b.matchType
           /\ eResult[1].matchType = a.matchType
           /\ RatLT(Rat(0, 1), a.score)

\* ---------------------------------------------- claims on the AI fallback
\* an evaluateAnswerAsync call has resolved
AsyncDone == ePc = "resolved" /\ eTrace.mode = "async"

\* the uncertain band of scores: 0.4 <= s < 0.9
InBand(s) == RatGE(s, Rat(2, 5)) /\ RatLT(s, Rat(9, 10))

\* what evaluateAnswer returns for the inputs of the call
SyncResult == evaluateAnswer(eCall.response, eCall.expectedAnswers)

\* C17: evaluateAnswerAsync consults the AI collaborator only when useAI is
\* set and the synchronous score is in [0.4, 0.9); when useAI is unset, the
\* score is outside the band or the collaborator is unavailable, it returns
\* exactly the result of evaluateAnswer for the same inputs, aiUsed false.
C17_ConsultsOnlyInBand ==
    (eTrace.mode = "async" /\ ePc \in {"status", "chat", "resolved"})
    => LET sync == SyncResult
       IN  /\ eTrace.consulted => eTrace.useAI /\ InBand(sync.score)
           /\ (/\ ePc = "resolved"
               /\ \/ ~eTrace.useAI
                  \/ ~InBand(sync.score)
                  \/ aiAvailable = Some(FALSE))
                 => /\ eResult = Some(sync)
                    /\ ~eResult[1].aiUsed
                    /\ eTrace.reply = NoReply

\* a call with useAI set and a score in the band resolved with the
\* built-in result because the collaborator reported itself unavailable
C17_Witness ==
    /\ AsyncDone
    /\ eTrace.useAI
    /\ eTrace.consulted
    /\ aiAvailable = Some(FALSE)
    /\ InBand(eResult[1].score)
    /\ ~eResult[1].aiUsed

\* the reply carries one of the three verdicts (in any letter case)
HasVerdict(reply) ==
    /\ reply.kind = "content"
    /\ reply.json = "object"
    /\ reply.result.type = "string"
    /\ toUpperCase(reply.result.text) \in {<<"Y", "E", "S">>, <<"P", "A", "R", "T", "I", "A", "L">>, <<"N", "O">>}

\* the consulted collaborator failed: unavailable, timed out, or a reply
\* without a verdict
CollaboratorFailed ==
    /\ eTrace.consulted
    /\ \/ aiAvailable = Some(FALSE)
       \/ eTrace.timedOut
       \/ (eTrace.reply # NoReply /\ ~HasVerdict(eTrace.reply))

\* C18: on any failure of the AI collaborator (unavailable, request error,
\* no parseable JSON, a result other than YES / PARTIAL / NO, timeout)
\* evaluateAnswerAsync resolves to the result of evaluateAnswer.
C18_FailureFallsBack ==
    (AsyncDone /\ CollaboratorFailed) => eResult = Some(SyncResult)

\* C19: every call of evaluateAnswerAsync eventually resolves, even when
\* the collaborator never answers.
C19_EventuallyResolves ==
    (eTrace.mode = "async") ~> (ePc \in {"resolved", "revealed"})

\* ----------------------------------------- claims on difficulty inference
\* the rules of the claim, in order: [applies, quality, confidence]
Rules(input) ==
    LET s == input.answerScore
        t == input.responseTimeMs
        stricter == input.cardInterval # Null /\ input.cardInterval[1] > 7
        quickTimes10 == IF stricter THEN 9 * 5000 ELSE 10 * 5000
        normalTimes10 == IF stricter THEN 9 * 15000 ELSE 10 * 15000
        atLeast(a, b) == a.n * b.d >= b.n * a.d
    IN  <<[applies |-> ~atLeast(s, Rat(1, 2)), quality |-> "again", confidence |-> Rat(9, 10)],
          [applies |-> ~atLeast(s, Rat(7, 10)) \/ input.hintUsed,
           quality |-> "hard", confidence |-> Rat(8, 10)],
          [applies |-> atLeast(s, Rat(9, 10)) /\ 10 * t < quickTimes10 /\ ~input.hintUsed,
           quality |-> "easy", confidence |-> Rat(85, 100)],
          [applies |-> atLeast(s, Rat(7, 10)) /\ 10 * t < normalTimes10,
           quality |-> "good", confidence |-> Rat(8, 10)],
          [applies |-> atLeast(s, Rat(9, 10)) /\ t > 30000,
           quality |-> "good", confidence |-> Rat(65, 100)],
          [applies |-> atLeast(s, Rat(9, 10)), quality |-> "good", confidence |-> Rat(7, 10)],
          [applies |-> TRUE, quality |-> "good", confidence |-> Rat(6, 10)]>>

FirstRule(input) ==
    LET rules == Rules(input)
    IN  rules[CHOOSE i \in 1..7 : rules[i].applies /\ \A j \in 1..(i - 1) : ~rules[j].applies]

\* C20: inferDifficulty returns the quality and confidence of the first
\* matching rule of the seven, the quick and normal thresholds being
\* multiplied by 0.9 when cardInterval > 7, and returns for every input.
C20_FirstMatchingRule ==
    inference.made =>
        /\ inference.out.quality = FirstRule(inference.input).quality
        /\ inference.out.confidence = FirstRule(inference.input).confidence

\* a correct answer after 4.5 to 5 s is easy on a young card and only good
\* on a card with an interval above 7 days: this is the latter
C20_Witness ==
    /\ inference.made
    /\ inference.input.cardInterval = Some(8)
    /\ inference.input.responseTimeMs = 4999
    /\ inference.input.answerScore = Rat(19, 20)
    /\ ~inference.input.hintUsed
    /\ inference.out.quality = "good"

\* ------------------------------------------------- claims, third group
\* C21: whenever hintUsed is true, inferDifficulty never suggests good or
\* easy: the quality is again when the score is below 0.5 and hard
\* otherwise, and when it is hard the reasoning mentions the hint.
C21_HintNeverGoodOrEasy ==
    (inference.made /\ inference.input.hintUsed) =>
        IF RatLT(inference.input.answerScore, Rat(1, 2))
        THEN inference.out.quality = "again"
        ELSE /\ inference.out.quality = "hard"
             /\ "used hint" \in inference.out.reasoning

\* a quick and correct answer, which would be easy, given with the hint
C21_Witness ==
    /\ inference.made
    /\ inference.input.hintUsed
    /\ inference.input.answerScore = Rat(19, 20)
    /\ inference.input.responseTimeMs = 3000
    /\ inference.out.quality = "hard"

\* C22: when the AI collaborator returns a verdict, evaluateAnswerAsync
\* returns matchType ai and aiUsed true, with score 0.95 and isCorrect true
\* for YES, 0.7 and false for PARTIAL, 0.3 and false for NO; the AI result
\* replaces the synchronous result even when it lowers the score.
C22_VerdictDecides ==
    (AsyncDone /\ HasVerdict(eTrace.reply)) =>
        /\ eResult[1].matchType = "ai"
        /\ eResult[1].aiUsed
        /\ eResult[1].score =
              CASE toUpperCase(eTrace.reply.result.text) = <<"Y", "E", "S">> -> Rat(19, 20)
                [] toUpperCase(eTrace.reply.result.text) = <<"P", "A", "R", "T", "I", "A", "L">> -> Rat(7, 10)
                [] OTHER -> Rat(3, 10)
        /\ eResult[1].isCorrect = (toUpperCase(eTrace.reply.result.text) = <<"Y", "E", "S">>)

\* the verdict NO lowered a synchronous score of the uncertain band to 0.3
C22_Witness ==
    /\ AsyncDone
    /\ HasVerdict(eTrace.reply)
    /\ eTrace.reply.result.text = <<"N", "O">>
    /\ InBand(SyncResult.score)
    /\ eResult[1].score = Rat(3, 10)
    /\ eResult[1].matchType = "ai"

\* the words of a text after normalization
NormalWords(text) == NonEmptyWords(normalizeText(text))

\* one word against one word
SingleWordPair(response, expected) ==
    Len(NormalWords(response)) = 1 /\ Len(NormalWords(expected)) = 1

\* the Levenshtein distance of the normalized pair is within the allowance
\* for the expected word
WithinAllowance(response, expected) ==
    levenshteinDistance(normalizeText(response), normalizeText(expected))
        <= getAllowedTypos(Len(NormalWords(expected)[1]))

\* C23, first half: a single-word response within the allowance of a
\* single-word expected answer is scored at least 0.9 and correct.
C23_WithinAllowanceAccepted ==
    SyncDone =>
        ((\E k \in 1..Len(eCall.expectedAnswers) :
              /\ SingleWordPair(eCall.response, eCall.expectedAnswers[k])
              /\ WithinAllowance(eCall.response, eCall.expectedAnswers[k]))
         => /\ RatGE(eResult[1].score, Rat(9, 10))
            /\ eResult[1].isCorrect)

\* C23, second half: a multi-word pair, or a single-word pair beyond the
\* allowance, is never accepted by the typo-tolerance strategy.
C23_BeyondAllowanceRejected ==
    SyncDone =>
        \A k \in 1..Len(eCall.expectedAnswers) :
            (\/ Len(NormalWords(eCall.response)) > 1
             \/ Len(NormalWords(eCall.expectedAnswers[k])) > 1
             \/ /\ SingleWordPair(eCall.response, eCall.expectedAnswers[k])
                /\ ~WithinAllowance(eCall.response, eCall.expectedAnswers[k]))
            => ~isShortAnswerMatch(eCall.response, eCall.expectedAnswers[k])

\* C23: for a single-word response and a single-word expected answer
\* (after normalization) whose Levenshtein distance is at most the
\* allowance (0 below 4 characters, 1 below 6, else 2), evaluateAnswer
\* returns score >= 0.9 and isCorrect true; a multi-word pair, or a
\* single-word pair beyond the allowance, is never accepted by the
\* typo-tolerance strategy.
C23_TypoTolerance == C23_WithinAllowanceAccepted /\ C23_BeyondAllowanceRejected

\* the handler in slot r responds in this step
Responds(r) == req'[r] # req[r] /\ req'[r].pc = "done"

\* C26: POST /api/cards/:id/review responds 400 when quality is missing and
\* 404 when the card does not exist or its deck is not owned by the
\* requesting user, and in both cases no card's ease, interval_days, lapses
\* or due_at changes; a successful review changes the schedule fields of the
\* addressed card only.
C26_RejectionsChangeNothing ==
    [][/\ \A r \in Slots :
            Responds(r) =>
               /\ req'[r].quality = NoQuality => req'[r].status = 400
               /\ (/\ req'[r].quality # NoQuality
                   /\ ~(req'[r].id \in CardIds /\ Owner(req'[r].id) = req'[r].user))
                     => req'[r].status = 404
               /\ req'[r].status \in {400, 404} => cards' = cards
               /\ req'[r].status = 200 =>
                     \A c \in CardIds \ {req'[r].id} : cards'[c] = cards[c]
       /\ cards' # cards => \E r \in Slots : Responds(r) /\ req'[r].status = 200]_vars

\* u1's review of c2, a card of u2's deck, was answered 404 and u1's review
\* of its own card c1 was stored, c2 being as it was created
C26_Witness ==
    /\ req[1].pc = "done" /\ req[1].id = "c2" /\ req[1].status = 404
    /\ req[2].pc = "done" /\ req[2].id = "c1" /\ req[2].status = 200
    /\ cards["c1"].due_at # Null
    /\ cards["c2"].due_at = Null

\* C29: a review with grade >= 3 strictly lengthens the interval: the new
\* interval_days is at least 1.3 times max(prior interval_days, 1), so over
\* a run of reviews without a lapse, each applied to the state the one
\* before it stored, interval_days is strictly increasing.
C29_PassLengthens ==
    /\ (sCall.made /\ qualityToSM2(sCall.quality) >= 3) =>
          /\ ~RatLT(sCall.out.interval_days,
                    RatTimesEase(IF RatLT(PriorInterval, One) THEN One ELSE PriorInterval,
                                 MinEase))
          /\ RatLT(PriorInterval, sCall.out.interval_days)
    /\ (/\ sPrevCall.made
        /\ sCall.made
        /\ sCall.prior = Stored(sPrevCall.out)
        /\ qualityToSM2(sPrevCall.quality) >= 3
        /\ qualityToSM2(sCall.quality) >= 3)
          => RatLT(sPrevCall.out.interval_days, sCall.out.interval_days)

\* a hard on a card at the ease floor after a hard that was stored: the
\* interval grows by 1.3 each time, from 10 days to 13 to 16.9
C29_Witness ==
    /\ sPrevCall.made
    /\ sPrevCall.quality = "hard"
    /\ sPrevCall.prior.ease = Some(130)
    /\ sPrevCall.prior.interval_days = Some(Rat(10, 1))
    /\ sCall.made
    /\ sCall.quality = "hard"
    /\ sCall.prior = Stored(sPrevCall.out)
    /\ sCall.out.interval_days = Rat(169, 10)

\* both terms are listed in one row of the table, as its canonical or as
\* one of its synonyms
ListedTogether(word1, word2) ==
    \E k \in 1..Len(SYNONYMS) :
        {word1, word2} \subseteq {SYNONYMS[k].canonical} \cup Range(SYNONYMS[k].synonyms)

\* C27: after the reverse lookup is built, every pair listed in the synonym
\* table is recognised: areSynonyms(c, s) is true for every canonical term c
\* and every synonym s of its list, and any two synonyms of one list are
\* synonyms of each other, even when a term appears in more than one list
\* or is also the canonical term of another entry.
C27_ListedPairsRecognised ==
    (syn.out # Null /\ ListedTogether(syn.word1, syn.word2)) => syn.out[1]

\* C30: startSession returns a non-null id only when that call itself
\* created a session (null without a current user or when the creation
\* fails, whatever was started earlier), and what it returns is the
\* current session id
C30_StartReturnsOwnSession ==
    manager.lastStart.made =>
        /\ manager.lastStart.ret # Null => manager.lastStart.created
        /\ manager.lastStart.ret = manager.lastStart.current

\* C25: every recorded event carries the due_at the scheduler produced and
\* the server stored for that review, also when the update request failed
C25_EventsCarrySchedulerDue ==
    \A i \in 1..Len(manager.events) :
        /\ manager.events[i].updated # Null
        /\ manager.events[i].next_due = manager.events[i].updated[1]

\* the ids of the deck's rows, as served, that are unscheduled or due at now
DueIds(rows, now) ==
    {rows[i].id : i \in {j \in 1..Len(rows) : rows[j].due_at = Null
                                                \/ rows[j].due_at[1] <= now}}

\* the ids of a list
IdsOf(list) == {list[i] : i \in 1..Len(list)}

\* a request that succeeded: the list holds, once each and in the order
\* served, exactly the served rows that are unscheduled or have
\* due_at <= now, and the served rows are the cards of the deck
C24_ServedRowsFiltered ==
    (due.made /\ due.response.status = 200) =>
        /\ IdsOf(due.out) = DueIds(due.response.data, due.now)
        /\ Len(due.out) = Cardinality(IdsOf(due.out))
        /\ {due.response.data[i].id : i \in 1..Len(due.response.data)}
               = {c \in CardIds : DeckOf(c) = due.deckId}

\* a card of the user's deck that has never been reviewed is in the list
\* of every query made for the deck
C24_NewCardsDue ==
    (due.made /\ DeckOwner(due.deckId) = "u1") =>
        \A c \in CardIds :
            (DeckOf(c) = due.deckId /\ cards[c].due_at = Null) => c \in IdsOf(due.out)

\* C24: getDueCards returns exactly the cards of the deck whose due_at is
\* null or not later than now; a new card is due at every time until its
\* first review
C24_ExactlyTheDueCards == C24_ServedRowsFiltered /\ C24_NewCardsDue

\* C28: a card shown causes at most one schedule-update request and one
\* session entry, and the index counts the cards answered before the last,
\* whatever the timing of the quality selections
C28_OncePerCard ==
    session.on =>
        /\ \A i, j \in 1..Len(session.sent) : session.sent[i] = session.sent[j] => i = j
        /\ \A i, j \in 1..Len(session.sessionEntries) :
               session.sessionEntries[i].cardId = session.sessionEntries[j].cardId => i = j
        /\ session.currentCardIndex
              = Cardinality({session.sessionEntries[i].cardId :
                                i \in 1..Len(session.sessionEntries)}
                            \ {session.cards[Len(session.cards)]})
        /\ session.completions <= 1

====
